---- MODULE Spec2Model ----
(***************************************************************************)
(* Verification model of pedoni: the fast-marching solver of field.rs,     *)
(* the NeighborGrid, and the tick of the CPU SocialForceModel.             *)
(*                                                                         *)
(* Numbers.  f32 values are fixed point integers.  Potentials and costs    *)
(* of apply_fmm are in tenths (1.0 = 10), results rounded to the nearest    *)
(* tenth.  Positions of pedestrians are in cm, velocities in cm/s,         *)
(* accelerations in cm/s^2, unit vectors in 1/1000, waypoint potentials in *)
(* 1/100 of a field cell.                                                  *)
(***************************************************************************)
EXTENDS Integers, Sequences, FiniteSets, TLC

(***************************************************************************)
(* Fast marching: bounds and constants                                     *)
(***************************************************************************)
FmmRows == 3
FmmCols == 6
MaxSeeds == 2
MaxObstacles == 1

\* slowness of a free cell (1.0) and of an obstacle cell, field.rs:102
FreeCost == 10
ObstacleCost == 10000
\* f32::MAX, the background of a waypoint map and the out-of-grid value
F32Max == 1000000000
\* 1e24, the background of the distance map (field.rs:98)
DistBackground == 900000000

FmmCells == 0 .. (FmmRows * FmmCols - 1)

\* util::Index: y is the row, x the column; Ord compares y first, then x
IndexY(c) == c \div FmmCols
IndexX(c) == c % FmmCols

\* Index::add(x, y) followed by Array2::get: the cell, or -1 outside the grid
IndexAdd(c, i, j) ==
    LET y == IndexY(c) + j
        x == IndexX(c) + i
    IN  IF y < 0 \/ y >= FmmRows \/ x < 0 \/ x >= FmmCols THEN -1
        ELSE y * FmmCols + x

\* the (j, i) pairs of the two neighbour loops, in source order
Directions == << <<-1, 0>>, <<1, 0>>, <<0, -1>>, <<0, 1>> >>

Min2(a, b) == IF a <= b THEN a ELSE b
AbsDiff(a, b) == IF a >= b THEN a - b ELSE b - a

RECURSIVE IsqrtSearch(_, _, _)
IsqrtSearch(n, lo, hi) ==
    IF lo >= hi THEN lo
    ELSE LET mid == (lo + hi + 1) \div 2
         IN  IF mid * mid <= n THEN IsqrtSearch(n, mid, hi)
             ELSE IsqrtSearch(n, lo, mid - 1)

\* f32::sqrt on the fixed point grid
Sqrt(n) == IsqrtSearch(n, 0, 46340)

VARIABLES
    potential,      \* Array2<f32> being solved
    cost,           \* f: the traversal cost field
    accepted,       \* Array2<bool>
    queue,          \* BinaryHeap<(Reverse<NotNan<f32>>, Index)> as a list of <<u, ix>>
    fmmPc,          \* "seed" (first loop), "march" (second loop), "done"
    scan,           \* cells below scan have been visited by the first loop
    seeds,          \* history: the cells whose initial potential was 0
    background,     \* history: the initial potential of the other cells
    fed,            \* history: cells whose potential was fed to the last upwind updates
    lastPop,        \* history: <<kind, u, ix>> of the last pop
    acceptCount     \* history: how many times each cell was marked Accepted

fmmVars == <<potential, cost, accepted, queue, fmmPc, scan, seeds, background,
             fed, lastPop, acceptCount>>

\* potential.get(ix).cloned().unwrap_or(f32::MAX)
GetOrMax(pot, c) == IF c = -1 THEN F32Max ELSE pot[c]

\* the cells among a and b (in the grid) that supply min(a, b), none if it is f32::MAX
FedBy(pot, a, b) ==
    LET m == Min2(GetOrMax(pot, a), GetOrMax(pot, b))
    IN  IF m = F32Max THEN {}
        ELSE {c \in {a, b} : c # -1 /\ pot[c] = m}

\* field.rs:173-184, the upwind formula
UpwindSmallerRoot(u1, u2, f) ==
    IF u1 = F32Max THEN u2 + f
    ELSE IF u2 = F32Max THEN u1 + f
    ELSE IF AbsDiff(u1, u2) <= 2 * f /\ 2 * f * f - AbsDiff(u1, u2) * AbsDiff(u1, u2) >= 0
         THEN (2 * (u1 + u2)
                 - Sqrt(4 * (2 * f * f - AbsDiff(u1, u2) * AbsDiff(u1, u2))) + 2) \div 4
         ELSE Min2(u1, u2) + f

Upwind(u1, u2, f) ==
    IF u1 = F32Max THEN u2 + f
    ELSE IF u2 = F32Max THEN u1 + f
    ELSE IF AbsDiff(u1, u2) <= 2 * f /\ 2 * f * f - AbsDiff(u1, u2) * AbsDiff(u1, u2) >= 0
         THEN (2 * (u1 + u2)
                 + Sqrt(4 * (2 * f * f - AbsDiff(u1, u2) * AbsDiff(u1, u2))) + 2) \div 4
         ELSE Min2(u1, u2) + f

RECURSIVE SeedNeighborsUnguarded(_, _, _)
SeedNeighborsUnguarded(st, c, k) ==
    IF k > Len(Directions) THEN st
    ELSE LET n == IndexAdd(c, Directions[k][2], Directions[k][1])
         IN  IF n # -1
             THEN SeedNeighborsUnguarded(
                      [potential |-> [st.potential EXCEPT ![n] = cost[n]],
                       queue |-> Append(st.queue, <<cost[n], n>>)], c, k + 1)
             ELSE SeedNeighborsUnguarded(st, c, k + 1)

\* field.rs:134-143, the neighbour initialisation of one seed cell
RECURSIVE SeedNeighbors(_, _, _)
SeedNeighbors(st, c, k) ==
    IF k > Len(Directions) THEN st
    ELSE LET n == IndexAdd(c, Directions[k][2], Directions[k][1])
         IN  IF n # -1 /\ st.potential[n] # 0
             THEN SeedNeighbors([potential |-> [st.potential EXCEPT ![n] = cost[n]],
                                 queue |-> Append(st.queue, <<cost[n], n>>)], c, k + 1)
             ELSE SeedNeighbors(st, c, k + 1)

RECURSIVE RelaxNoPush(_, _, _, _)
RelaxNoPush(st, c, u, k) ==
    IF k > Len(Directions) THEN st
    ELSE LET n == IndexAdd(c, Directions[k][2], Directions[k][1])
         IN  IF n = -1 \/ accepted[n] \/ n = c THEN RelaxNoPush(st, c, u, k + 1)
             ELSE RelaxNoPush([st EXCEPT !.potential[n] = Min2(@, u + cost[n])], c, u, k + 1)

\* field.rs:156-190, the relaxation of the neighbours of the cell c accepted with u
RECURSIVE Relax(_, _, _, _)
Relax(st, c, u, k) ==
    IF k > Len(Directions) THEN st
    ELSE LET j == Directions[k][1]
             i == Directions[k][2]
             n == IndexAdd(c, i, j)
         IN  IF n = -1 \/ accepted[n] \/ n = c THEN Relax(st, c, u, k + 1)
             ELSE LET a == IF j = 0 THEN IndexAdd(n, 0, -1) ELSE IndexAdd(n, -1, 0)
                      b == IF j = 0 THEN IndexAdd(n, 0, 1) ELSE IndexAdd(n, 1, 0)
                      o == Min2(GetOrMax(st.potential, a), GetOrMax(st.potential, b))
                      u1 == IF j = 0 THEN u ELSE o
                      u2 == IF j = 0 THEN o ELSE u
                      nu == Upwind(u1, u2, cost[n])
                      uses == st.fed \cup FedBy(st.potential, a, b)
                  IN  IF nu < st.potential[n]
                      THEN Relax([potential |-> [st.potential EXCEPT ![n] = nu],
                                  queue |-> Append(st.queue, <<nu, n>>),
                                  fed |-> uses], c, u, k + 1)
                      ELSE Relax([st EXCEPT !.fed = uses], c, u, k + 1)

\* field.rs:149, if accepted[ix] { continue; }
AlreadyAcceptedNever(acc, c) == FALSE

AlreadyAccepted(acc, c) == acc[c]

\* BinaryHeap::pop on (Reverse(u), ix): the smallest u, then the largest Index
HeapBefore(e1, e2) == e1[1] < e2[1] \/ (e1[1] = e2[1] /\ e1[2] >= e2[2])
HeapTopLast(q) == Len(q)

HeapTop(q) == CHOOSE k \in 1 .. Len(q) : \A m \in 1 .. Len(q) : HeapBefore(q[k], q[m])
RemoveAt(q, k) == [m \in 1 .. (Len(q) - 1) |-> IF m < k THEN q[m] ELSE q[m + 1]]

\* the subsets of S with at most k elements
RECURSIVE SubsetsUpTo(_, _)
SubsetsUpTo(S, k) ==
    IF k = 0 THEN {{}}
    ELSE LET r == SubsetsUpTo(S, k - 1) IN r \cup {t \cup {x} : t \in r, x \in S}

SeedSets == SubsetsUpTo(FmmCells, MaxSeeds)
ObstacleSets == SubsetsUpTo(FmmCells, MaxObstacles)

\* FieldBuilder::build: the distance map is solved with a uniform cost over a
\* 1e24 background, a waypoint map with the slowness over an f32::MAX background
FmmInit ==
    /\ seeds \in SeedSets
    /\ \E obs \in ObstacleSets :
         \/ /\ background = F32Max
            /\ cost = [c \in FmmCells |-> IF c \in obs THEN ObstacleCost ELSE FreeCost]
         \/ /\ obs = {}
            /\ background = DistBackground
            /\ cost = [c \in FmmCells |-> FreeCost]
    /\ potential = [c \in FmmCells |-> IF c \in seeds THEN 0 ELSE background]
    /\ accepted = [c \in FmmCells |-> FALSE]
    /\ queue = << >>
    /\ fmmPc = "seed"
    /\ scan = 0
    /\ fed = {}
    /\ lastPop = <<"none", 0, 0>>
    /\ acceptCount = [c \in FmmCells |-> 0]

\* first loop of apply_fmm: the next cell in row-major order whose potential is 0
SeedCandidates == {c \in FmmCells : c >= scan /\ potential[c] = 0}

FmmSeed ==
    /\ fmmPc = "seed"
    /\ SeedCandidates # {}
    /\ LET c == CHOOSE c \in SeedCandidates : \A d \in SeedCandidates : c <= d
           st == SeedNeighbors([potential |-> potential, queue |-> queue], c, 1)
       IN  /\ accepted' = [accepted EXCEPT ![c] = TRUE]
           /\ potential' = st.potential
           /\ queue' = st.queue
           /\ scan' = c + 1
           /\ acceptCount' = [acceptCount EXCEPT ![c] = @ + 1]
    /\ UNCHANGED <<cost, fmmPc, seeds, background, fed, lastPop>>

FmmSeedDone ==
    /\ fmmPc = "seed"
    /\ SeedCandidates = {}
    /\ fmmPc' = "march"
    /\ scan' = FmmRows * FmmCols
    /\ UNCHANGED <<potential, cost, accepted, queue, seeds, background, fed, lastPop,
                   acceptCount>>

\* second loop, a popped entry whose cell is already Accepted (field.rs:149-151)
FmmDiscard ==
    /\ fmmPc = "march"
    /\ queue # << >>
    /\ LET k == HeapTop(queue)
       IN  /\ AlreadyAccepted(accepted, queue[k][2])
           /\ queue' = RemoveAt(queue, k)
           /\ lastPop' = <<"discard", queue[k][1], queue[k][2]>>
    /\ UNCHANGED <<potential, cost, accepted, fmmPc, scan, seeds, background, fed,
                   acceptCount>>

\* second loop, a popped entry that is accepted and relaxed (field.rs:153-190)
FmmAccept ==
    /\ fmmPc = "march"
    /\ queue # << >>
    /\ LET k == HeapTop(queue)
           u == queue[k][1]
           c == queue[k][2]
           st == Relax([potential |-> potential, queue |-> RemoveAt(queue, k),
                        fed |-> {}], c, u, 1)
       IN  /\ ~AlreadyAccepted(accepted, c)
           /\ accepted' = [accepted EXCEPT ![c] = TRUE]
           /\ potential' = st.potential
           /\ queue' = st.queue
           /\ fed' = st.fed
           /\ lastPop' = <<"accept", u, c>>
           /\ acceptCount' = [acceptCount EXCEPT ![c] = @ + 1]
    /\ UNCHANGED <<cost, fmmPc, scan, seeds, background>>

\* while let Some(..) = queue.pop() ends
FmmFinish ==
    /\ fmmPc = "march"
    /\ queue = << >>
    /\ fmmPc' = "done"
    /\ UNCHANGED <<potential, cost, accepted, queue, scan, seeds, background, fed,
                   lastPop, acceptCount>>


(***************************************************************************)
(* Simulation tick: scenario, options and bounds                           *)
(***************************************************************************)
MaxTicks == 3
MaxPeds == 2

\* scenario.field.size, in cm
FieldWidth == 1200
FieldHeight == 800
\* SimulatorOptions::field_grid_unit of the modelled run, in cm
FieldUnit == 200
\* SimulatorOptions::default().neighbor_grid_unit = 1.4 m, and a unit of 4.0 m
DefaultNeighborUnit == 140
WideNeighborUnit == 400
\* squared interaction cutoff 16.0 m^2 (sfm.rs:133), in cm^2
CutoffSquared == 160000
\* arrival threshold 0.25 (sfm.rs:69), in 1/100
ArrivalThreshold == 25
\* util::bilinear FMAX = 1e12, scaled to the fixed point range
BilinearFMax == 2000000
\* COS_PHI (sfm.rs:16), in 1/1000
CosPhi == -174
\* desired speed 1.34 m/s
DesiredSpeed == 134

CeilDiv(a, b) == (a + b - 1) \div b
\* f32 as i32 and f32 division of a scaled value: rounds toward zero
TruncDiv(a, b) == IF a >= 0 THEN a \div b ELSE -((-a) \div b)
Max2(a, b) == IF a >= b THEN a ELSE b

\* FieldBuilder::new: shape = ceil(size / unit)
FieldRows == CeilDiv(FieldHeight, FieldUnit)
FieldCols == CeilDiv(FieldWidth, FieldUnit)

\* Field::potential_maps[0]: the apply_fmm solution for the waypoint cells
\* (1,1),(2,1) over the slowness of a field whose border cells are obstacles,
\* in 1/100; potential_maps[1] the same for the waypoint cells (1,3),(2,3)
PotentialMaps ==
    << << <<1707107, 1000000, 1000100, 1000200, 1000300, 1707407>>,
          <<1000000, 0, 100, 200, 300, 1000300>>,
          <<1000000, 0, 100, 200, 300, 1000300>>,
          <<1707107, 1000000, 1000100, 1000200, 1000300, 1707407>> >>,
       << <<1707307, 1000200, 1000100, 1000000, 1000100, 1707207>>,
          <<1000200, 200, 100, 0, 100, 1000100>>,
          <<1000200, 200, 100, 0, 100, 1000100>>,
          <<1707307, 1000200, 1000100, 1000000, 1000100, 1707207>> >> >>

\* Field::distance_map: distance from the nearest obstacle cell, in cm
DistanceMap ==
    << <<0, 0, 0, 0, 0, 0>>,
       <<0, 200, 200, 200, 200, 0>>,
       <<0, 200, 200, 200, 200, 0>>,
       <<0, 0, 0, 0, 0, 0>> >>

\* points of the origin waypoint segments at which rng.f32() places a pedestrian
SpawnSites == {<<390, 390>>, <<410, 410>>, <<600, 400>>, <<647, 400>>, <<1200, 410>>}
\* every modelled source has destination waypoint 1 (index 2 of PotentialMaps)
SpawnDestination == 1

VAdd(a, b) == <<a[1] + b[1], a[2] + b[2]>>
VSub(a, b) == <<a[1] - b[1], a[2] - b[2]>>
VNeg(a) == <<-a[1], -a[2]>>
VMulDiv(a, n, d) == <<TruncDiv(a[1] * n, d), TruncDiv(a[2] * n, d)>>
Dot(a, b) == a[1] * b[1] + a[2] * b[2]
Abs(a) == IF a >= 0 THEN a ELSE -a
LengthSquared(a) == Dot(a, a)
Length(a) == Sqrt(LengthSquared(a))

\* Vec2::normalize in 1/1000; the zero vector (NaN in f32) is kept as zero
Normalize(a) ==
    LET k == Max2(Abs(a[1]), Abs(a[2])) \div 10000 + 1
        v == <<TruncDiv(a[1], k), TruncDiv(a[2], k)>>
        len == Length(v)
    IN  IF len = 0 THEN <<0, 0>> ELSE VMulDiv(v, 1000, len)

\* exp(-x / b) in 1/1000, where h = b * ln 2: halved every h, linear in between
RECURSIVE Halve(_, _)
Halve(v, k) == IF k = 0 THEN v ELSE Halve(v \div 2, k - 1)

ExpMilli(x, h) ==
    IF x <= 0 THEN 1000
    ELSE IF x \div h >= 10 THEN 0
    ELSE (Halve(1000, x \div h) * (2 * h - (x % h))) \div (2 * h)

\* Array2::get(ix).cloned().unwrap_or(FMAX)
GridGetOffByOne(grid, x, y) ==
    IF x < 0 \/ y < 0 \/ y >= Len(grid) - 1 \/ x >= Len(grid[1]) - 1 THEN BilinearFMax
    ELSE grid[y + 1][x + 1]

GridGet(grid, x, y) ==
    IF x < 0 \/ y < 0 \/ y >= Len(grid) \/ x >= Len(grid[1]) THEN BilinearFMax
    ELSE grid[y + 1][x + 1]

Lerp(a, b, t) == a + ((b - a) * t) \div FieldUnit

\* util::bilinear at the grid-local position g (in cm, already shifted by half a
\* cell): base = floor(g / unit), t = g - base; the weighted sum of the four
\* cells, evaluated as two nested linear interpolations
Bilinear(grid, g) ==
    LET bx == g[1] \div FieldUnit
        by == g[2] \div FieldUnit
        tx == g[1] % FieldUnit
        ty == g[2] % FieldUnit
    IN  Lerp(Lerp(GridGet(grid, bx, by), GridGet(grid, bx + 1, by), tx),
             Lerp(GridGet(grid, bx, by + 1), GridGet(grid, bx + 1, by + 1), tx), ty)

\* position / self.unit - Vec2::splat(0.5)
GridLocal(pos) == <<pos[1] - FieldUnit \div 2, pos[2] - FieldUnit \div 2>>

\* Field::get_potential / get_field_potential
GetPotential(waypoint, pos) == Bilinear(PotentialMaps[waypoint + 1], GridLocal(pos))

\* Field::get_obstacle_distance
GetObstacleDistance(pos) == Bilinear(DistanceMap, GridLocal(pos))

\* the stencil of Field::get_potential_grad: the negated Sobel filter
Stencil(grid, pos) ==
    LET g == GridLocal(pos)
        u(x, y) == Bilinear(grid, <<g[1] + x * FieldUnit, g[2] + y * FieldUnit>>)
    IN  << (u(-1, -1) + 2 * u(-1, 0) + u(-1, 1)) - (u(1, -1) + 2 * u(1, 0) + u(1, 1)),
           (u(-1, -1) + 2 * u(0, -1) + u(1, -1)) - (u(-1, 1) + 2 * u(0, 1) + u(1, 1)) >>

GetPotentialGrad(waypoint, pos) == Stencil(PotentialMaps[waypoint + 1], pos)
GetObstacleDistanceGrad(pos) == Stencil(DistanceMap, pos)

VARIABLES
    pedestrians,            \* SocialForceModel::pedestrians, a list of records
    neighbor_grid,          \* NeighborGrid::data, one index list per cell (row-major)
    neighbor_grid_indices,  \* SocialForceModel::neighbor_grid_indices
    neighbor_grid_unit,     \* options.neighbor_grid_unit
    use_neighbor_grid,      \* options.use_neighbor_grid
    accelerations,          \* results of the parallel map collected so far
    next_state,             \* the collected Vec<Vec2> handed to the integration
    pending,                \* ids of the parallel tasks that have not run yet
    pc,                     \* position of the simulation thread in its loop
    tick,                   \* number of ticks started
    spawned,                \* number of pedestrians spawned so far
    updateInput,            \* history: positions handed to the last NeighborGrid::update
    snapshot,               \* history: the pedestrians when force evaluation started
    snapshotIndices,        \* history: neighbor_grid_indices at that moment
    phaseLog,               \* history: the phases of the current tick, in order
    visited                 \* history: per task, the indices its neighbor loop visited

tickVars == <<pedestrians, neighbor_grid, neighbor_grid_indices, neighbor_grid_unit,
              use_neighbor_grid, accelerations, next_state, pending, pc, tick, spawned,
              updateInput, snapshot, snapshotIndices, phaseLog, visited>>

VARIABLES
    paused,                 \* STATE.paused, set by the renderer and by the headless start
    simHolds,               \* the guard of SIMULATOR the simulation thread holds
    readerPc,               \* the renderer / log export thread: "idle" or "reading"
    pausedAtCommit          \* history: STATE.paused when the last tick was committed

loopVars == <<paused, simHolds, readerPc, pausedAtCommit>>

VARIABLES
    gpuStep,                \* SocialForceModelGpu: the next step of the kernel dispatch
    gpuError                \* the step whose ocl::Result was an Err, "none" otherwise

gpuVars == <<gpuStep, gpuError>>

VARIABLES
    obstacle_exist,         \* FieldBuilder::obstacle_exist, one boolean per cell (row-major)
    potential_maps,         \* FieldBuilder::potential_maps, the seed cells of each waypoint
    builderPc,              \* "building", or "panicked" after an unwrap of an Err
    added                   \* history: the obstacles handed to add_obstacle so far

builderVars == <<obstacle_exist, potential_maps, builderPc, added>>

VARIABLES
    point,                  \* argument: a position / point
    line,                   \* argument: a segment [Vec2; 2]
    called,                 \* the function that has been applied, "none" before
    output                  \* its return value

utilVars == <<point, line, called, output>>

VARIABLES
    phases                  \* history: per task, the fastrand::f32() of CircleBorder::optimize

osmVars == <<phases>>

VARIABLES
    seeded,                 \* the values fastrand::Rng::with_seed(0) yields, in 1/100
    spawn_rng,              \* per run, the position of Simulator::spawn_rng in its stream
    spawn_log               \* history: per run, what each spawn_pedestrians call pushed

reproVars == <<seeded, spawn_rng, spawn_log>>

vars == <<fmmVars, tickVars, loopVars, gpuVars, builderVars, utilVars, osmVars, reproVars>>

\* NeighborGrid::new: shape = ceil(size / unit)
GridRows(unit) == CeilDiv(FieldHeight, unit)
GridCols(unit) == CeilDiv(FieldWidth, unit)
GridCells(unit) == 0 .. (GridRows(unit) * GridCols(unit) - 1)

\* (pos / unit).as_ivec2() and Array2::get_mut: the row-major cell, -1 outside
Bucket(pos, unit) ==
    LET x == TruncDiv(pos[1], unit)
        y == TruncDiv(pos[2], unit)
    IN  IF x < 0 \/ y < 0 \/ x >= GridCols(unit) \/ y >= GridRows(unit) THEN -1
        ELSE y * GridCols(unit) + x

\* NeighborGrid::update: clear every cell, then push each index into its cell
RECURSIVE UpdateFrom(_, _, _, _)
UpdateFrom(data, positions, unit, k) ==
    IF k > Len(positions) THEN data
    ELSE LET c == Bucket(positions[k], unit)
         IN  IF c = -1 THEN UpdateFrom(data, positions, unit, k + 1)
             ELSE UpdateFrom([data EXCEPT ![c] = Append(@, k - 1)], positions, unit, k + 1)

Update(positions, unit) == UpdateFrom([c \in GridCells(unit) |-> << >>], positions, unit, 1)

Positions(peds) == [k \in 1 .. Len(peds) |-> peds[k].position]

\* sfm.rs:69, the arrival test of spawn_pedestrians
StaysAlways(p) == TRUE

Stays(p) == GetPotential(p.destination, p.position) > ArrivalThreshold

SelectStaying(peds) == SelectSeq(peds, Stays)

\* sfm.rs:61-77: the pedestrians of the cells in row-major order, arrived ones left out
RECURSIVE SortedFrom(_, _, _, _)
SortedFrom(peds, data, unit, c) ==
    IF c >= GridRows(unit) * GridCols(unit) THEN << >>
    ELSE SelectStaying([j \in 1 .. Len(data[c]) |-> peds[data[c][j] + 1]])
             \o SortedFrom(peds, data, unit, c + 1)

\* sfm.rs:62-75: the running count of kept pedestrians after each cell
RECURSIVE IndicesFromUnfiltered(_, _, _, _, _)
IndicesFromUnfiltered(peds, data, unit, c, index) ==
    IF c >= GridRows(unit) * GridCols(unit) THEN << >>
    ELSE LET n == index + Len(data[c])
         IN  <<n>> \o IndicesFromUnfiltered(peds, data, unit, c + 1, n)

RECURSIVE IndicesFrom(_, _, _, _, _)
IndicesFrom(peds, data, unit, c, index) ==
    IF c >= GridRows(unit) * GridCols(unit) THEN << >>
    ELSE LET n == index
                  + Len(SelectStaying([j \in 1 .. Len(data[c]) |-> peds[data[c][j] + 1]]))
         IN  <<n>> \o IndicesFrom(peds, data, unit, c + 1, n)

\* the 3x3 block of sfm.rs:113-129: the indices i of the loops, in 0-based form
BlockNarrow(pos, unit, indices) ==
    LET cols == GridCols(unit)
        rows == GridRows(unit)
        ix == TruncDiv(pos[1], unit)
        iy == TruncDiv(pos[2], unit)
        y_start == Max2(iy - 1, 0)
        y_end == Min2(iy + 1, rows - 1)
        x_start == Max2(ix - 1, 0)
        x_end == Min2(ix, cols - 1)
    IN  UNION {indices[y * cols + x_start + 1] .. (indices[y * cols + x_end + 2] - 1) :
               y \in y_start .. y_end}

Block(pos, unit, indices) ==
    LET cols == GridCols(unit)
        rows == GridRows(unit)
        ix == TruncDiv(pos[1], unit)
        iy == TruncDiv(pos[2], unit)
        y_start == Max2(iy - 1, 0)
        y_end == Min2(iy + 1, rows - 1)
        x_start == Max2(ix - 1, 0)
        x_end == Min2(ix + 1, cols - 1)
    IN  UNION {indices[y * cols + x_start + 1] .. (indices[y * cols + x_end + 2] - 1) :
               y \in y_start .. y_end}

\* sfm.rs:129-130: the other pedestrians the neighbor loop of task id iterates over
Visited(peds, unit, indices, id) == Block(peds[id + 1].position, unit, indices) \ {id}

\* sfm.rs:131-158: the force on a pedestrian at pos, walking along e, from pedestrian o
PairForce(pos, e, o) ==
    LET difference == VSub(pos, o.position)
        distance_squared == LengthSquared(difference)
        distance == Sqrt(distance_squared)
        direction == Normalize(difference)
        vel_i == o.velocity
        t1 == VSub(difference, VMulDiv(vel_i, 1, 10))
        t1_length == Length(t1)
        t2 == distance + t1_length
        b == Sqrt(t2 * t2 - (Length(vel_i) \div 10) * (Length(vel_i) \div 10)) \div 2
        nabla_b == IF b = 0 \/ t1_length = 0 THEN <<0, 0>>
                   ELSE VMulDiv(VAdd(direction, VMulDiv(t1, 1000, t1_length)), t2, 4 * b)
        force == VMulDiv(nabla_b, 700 * ExpMilli(b, 21), 1000000)
    IN  IF distance_squared > CutoffSquared THEN <<0, 0>>
        ELSE IF Dot(e, VNeg(force)) < Length(force) * CosPhi THEN VMulDiv(force, 1, 2)
        ELSE force

RECURSIVE SumPairForces(_, _, _, _)
SumPairForces(peds, pos, e, ids) ==
    IF ids = {} THEN <<0, 0>>
    ELSE LET i == CHOOSE i \in ids : \A k \in ids : i <= k
         IN  VAdd(PairForce(pos, e, peds[i + 1]), SumPairForces(peds, pos, e, ids \ {i}))

\* sfm.rs:165-169: the force from obstacles, read from the distance map
ObstacleForce(pos) ==
    LET distance == GetObstacleDistance(pos)
        direction == VNeg(Normalize(GetObstacleDistanceGrad(pos)))
    IN  VMulDiv(direction, 200 * ExpMilli(distance, 14), 1000000)

\* sfm.rs:95-187: the body of one task of the parallel map
Acceleration(peds, grid, unit, indices, id) ==
    LET p == peds[id + 1]
        e == Normalize(GetPotentialGrad(p.destination, p.position))
        dest == VMulDiv(VSub(VMulDiv(e, p.desired_speed, 1000), p.velocity), 2, 1)
        pair == IF grid THEN SumPairForces(peds, p.position, e,
                                           Visited(peds, unit, indices, id))
                ELSE <<0, 0>>
    IN  VAdd(VAdd(dest, pair), ObstacleForce(p.position))

\* Vec2::clamp_length_max
ClampLengthMax(v, max) ==
    IF LengthSquared(v) > max * max THEN VMulDiv(v, max, Length(v)) ELSE v

\* sfm.rs:192-201: the integration of one pedestrian
IntegrateUnclamped(p, acc) ==
    LET vel_prev == p.velocity
        vel == VAdd(vel_prev, VMulDiv(acc, 1, 10))
    IN  [p EXCEPT !.velocity = vel,
                  !.position = VAdd(p.position, VMulDiv(VAdd(vel, vel_prev), 1, 20))]

Integrate(p, acc) ==
    LET vel_prev == p.velocity
        vel == ClampLengthMax(VAdd(vel_prev, VMulDiv(acc, 1, 10)),
                              (p.desired_speed * 13) \div 10)
    IN  [p EXCEPT !.velocity = vel,
                  !.position = VAdd(p.position, VMulDiv(VAdd(vel, vel_prev), 1, 20))]

IntegrateAll(peds, accs) == [k \in 1 .. Len(peds) |-> Integrate(peds[k], accs[k])]

TickInit ==
    /\ pedestrians = << >>
    /\ neighbor_grid_unit \in {DefaultNeighborUnit, WideNeighborUnit}
    /\ use_neighbor_grid \in BOOLEAN
    /\ neighbor_grid = [c \in GridCells(neighbor_grid_unit) |-> << >>]
    /\ neighbor_grid_indices = << >>
    /\ accelerations = << >>
    /\ next_state = << >>
    /\ pending = {}
    /\ pc = "loop"
    /\ tick = 0
    /\ spawned = 0
    /\ updateInput = << >>
    /\ snapshot = << >>
    /\ snapshotIndices = << >>
    /\ phaseLog = << >>
    /\ visited = << >>

FmmIdle ==
    /\ potential = << >>
    /\ cost = << >>
    /\ accepted = << >>
    /\ queue = << >>
    /\ fmmPc = "off"
    /\ scan = 0
    /\ seeds = {}
    /\ background = 0
    /\ fed = {}
    /\ lastPop = <<"none", 0, 0>>
    /\ acceptCount = << >>

\* main.rs:68-71: one iteration of the simulation thread begins
LoopStart ==
    /\ pc = "loop"
    /\ tick < MaxTicks
    /\ ~paused
    /\ UNCHANGED loopVars
    /\ pc' = "spawn"
    /\ tick' = tick + 1
    /\ phaseLog' = << >>
    /\ UNCHANGED <<pedestrians, neighbor_grid, neighbor_grid_indices, neighbor_grid_unit,
                   use_neighbor_grid, accelerations, next_state, pending, spawned,
                   updateInput, snapshot, snapshotIndices, visited>>
    /\ UNCHANGED <<fmmVars, gpuVars, builderVars, utilVars, osmVars, reproVars>>

\* SIMULATOR.write() (main.rs:73 and main.rs:81): granted when no guard is out
AcquireWrite ==
    /\ pc \in {"spawn", "apply"}
    /\ simHolds = "none"
    /\ readerPc = "idle"
    /\ simHolds' = "write"
    /\ UNCHANGED <<paused, readerPc, pausedAtCommit>>
    /\ UNCHANGED <<tickVars, fmmVars, gpuVars, builderVars, utilVars, osmVars, reproVars>>

\* SIMULATOR.read() (main.rs:77): shared with the other readers
AcquireRead ==
    /\ pc = "calc"
    /\ simHolds = "none"
    /\ simHolds' = "read"
    /\ UNCHANGED <<paused, readerPc, pausedAtCommit>>
    /\ UNCHANGED <<tickVars, fmmVars, gpuVars, builderVars, utilVars, osmVars, reproVars>>

\* Simulator::spawn_pedestrians (lib.rs:57-70) and the push loop of
\* SocialForceModel::spawn_pedestrians (sfm.rs:49-56)
SpawnPedestrians ==
    /\ pc = "spawn"
    /\ simHolds = "write"
    /\ UNCHANGED loopVars
    /\ \E new \in {<< >>} \cup {<<a>> : a \in SpawnSites}
                  \cup {ab \in SpawnSites \X SpawnSites : ab[1] # ab[2]} :
         /\ spawned + Len(new) <= MaxPeds
         /\ \A k \in 1 .. Len(new) : \A m \in 1 .. Len(pedestrians) :
                pedestrians[m].position # new[k]
         /\ pedestrians' = pedestrians \o
                [k \in 1 .. Len(new) |-> [position |-> new[k],
                                          destination |-> SpawnDestination,
                                          velocity |-> <<0, 0>>,
                                          desired_speed |-> DesiredSpeed,
                                          uid |-> spawned + k]]
         /\ spawned' = spawned + Len(new)
    /\ pc' = "rebuild"
    /\ phaseLog' = Append(phaseLog, "spawn")
    /\ UNCHANGED <<neighbor_grid, neighbor_grid_indices, neighbor_grid_unit,
                   use_neighbor_grid, accelerations, next_state, pending, tick,
                   updateInput, snapshot, snapshotIndices, visited>>
    /\ UNCHANGED <<fmmVars, gpuVars, builderVars, utilVars, osmVars, reproVars>>

\* SocialForceModel::spawn_pedestrians, sfm.rs:58-88
RebuildGrid ==
    /\ pc = "rebuild"
    /\ simHolds' = "none"
    /\ UNCHANGED <<paused, readerPc, pausedAtCommit>>
    /\ IF use_neighbor_grid
       THEN LET data == Update(Positions(pedestrians), neighbor_grid_unit)
            IN  /\ neighbor_grid' = data
                /\ updateInput' = Positions(pedestrians)
                /\ pedestrians' = SortedFrom(pedestrians, data, neighbor_grid_unit, 0)
                /\ neighbor_grid_indices' =
                       <<0>> \o IndicesFrom(pedestrians, data, neighbor_grid_unit, 0, 0)
       ELSE /\ pedestrians' = SelectStaying(pedestrians)
            /\ UNCHANGED <<neighbor_grid, neighbor_grid_indices, updateInput>>
    /\ pc' = "calc"
    /\ pending' = 0 .. (Len(pedestrians') - 1)
    /\ accelerations' = [k \in 1 .. Len(pedestrians') |-> <<0, 0>>]
    /\ visited' = [k \in 1 .. Len(pedestrians') |-> {}]
    /\ snapshot' = pedestrians'
    /\ snapshotIndices' = neighbor_grid_indices'
    /\ phaseLog' = Append(phaseLog, "rebuild")
    /\ UNCHANGED <<neighbor_grid_unit, use_neighbor_grid, next_state, tick, spawned>>
    /\ UNCHANGED <<fmmVars, gpuVars, builderVars, utilVars, osmVars, reproVars>>

\* one task of (0..pedestrians.len()).into_par_iter().map(..), sfm.rs:95-187
CalcTaskInPlace(id) ==
    /\ pc = "calc"
    /\ simHolds = "read"
    /\ UNCHANGED loopVars
    /\ id \in pending
    /\ LET acc == Acceleration(pedestrians, use_neighbor_grid, neighbor_grid_unit,
                               neighbor_grid_indices, id)
       IN  /\ accelerations' = [accelerations EXCEPT ![id + 1] = <<0, 0>>]
           /\ pedestrians' = [pedestrians EXCEPT ![id + 1] = Integrate(@, acc)]
    /\ visited' = [visited EXCEPT ![id + 1] =
                       IF use_neighbor_grid
                       THEN Visited(pedestrians, neighbor_grid_unit, neighbor_grid_indices, id)
                       ELSE {}]
    /\ pending' = pending \ {id}
    /\ phaseLog' = Append(phaseLog, "eval")
    /\ UNCHANGED <<neighbor_grid, neighbor_grid_indices, neighbor_grid_unit,
                   use_neighbor_grid, next_state, pc, tick, spawned, updateInput,
                   snapshot, snapshotIndices>>
    /\ UNCHANGED <<fmmVars, gpuVars, builderVars, utilVars, osmVars, reproVars>>

CalcTask(id) ==
    /\ pc = "calc"
    /\ simHolds = "read"
    /\ UNCHANGED loopVars
    /\ id \in pending
    /\ accelerations' = [accelerations EXCEPT ![id + 1] =
                             Acceleration(pedestrians, use_neighbor_grid,
                                          neighbor_grid_unit, neighbor_grid_indices, id)]
    /\ visited' = [visited EXCEPT ![id + 1] =
                       IF use_neighbor_grid
                       THEN Visited(pedestrians, neighbor_grid_unit, neighbor_grid_indices, id)
                       ELSE {}]
    /\ pending' = pending \ {id}
    /\ phaseLog' = Append(phaseLog, "eval")
    /\ UNCHANGED <<pedestrians, neighbor_grid, neighbor_grid_indices, neighbor_grid_unit,
                   use_neighbor_grid, next_state, pc, tick, spawned, updateInput,
                   snapshot, snapshotIndices>>
    /\ UNCHANGED <<fmmVars, gpuVars, builderVars, utilVars, osmVars, reproVars>>

\* .collect() of the parallel map: every task has delivered its result
CalcCollectEarly ==
    /\ pc = "calc"
    /\ simHolds = "read"
    /\ simHolds' = "none"
    /\ UNCHANGED <<paused, readerPc, pausedAtCommit>>
    /\ next_state' = accelerations
    /\ pc' = "apply"
    /\ UNCHANGED <<pedestrians, neighbor_grid, neighbor_grid_indices, neighbor_grid_unit,
                   use_neighbor_grid, accelerations, pending, tick, spawned, updateInput,
                   snapshot, snapshotIndices, phaseLog, visited>>
    /\ UNCHANGED <<fmmVars, gpuVars, builderVars, utilVars, osmVars, reproVars>>

CalcCollect ==
    /\ pc = "calc"
    /\ simHolds = "read"
    /\ simHolds' = "none"
    /\ UNCHANGED <<paused, readerPc, pausedAtCommit>>
    /\ pending = {}
    /\ next_state' = accelerations
    /\ pc' = "apply"
    /\ UNCHANGED <<pedestrians, neighbor_grid, neighbor_grid_indices, neighbor_grid_unit,
                   use_neighbor_grid, accelerations, pending, tick, spawned, updateInput,
                   snapshot, snapshotIndices, phaseLog, visited>>
    /\ UNCHANGED <<fmmVars, gpuVars, builderVars, utilVars, osmVars, reproVars>>

\* the integration loop, sfm.rs:190-201 (apply_next_state)
ApplyNextStateUnlessPaused ==
    /\ pc = "apply"
    /\ simHolds = "write"
    /\ simHolds' = "none"
    /\ pausedAtCommit' = paused
    /\ pedestrians' = IF paused THEN pedestrians ELSE IntegrateAll(pedestrians, next_state)
    /\ pc' = "loop"
    /\ phaseLog' = IF paused THEN phaseLog ELSE Append(phaseLog, "commit")
    /\ UNCHANGED <<paused, readerPc>>
    /\ UNCHANGED <<neighbor_grid, neighbor_grid_indices, neighbor_grid_unit,
                   use_neighbor_grid, accelerations, next_state, pending, tick, spawned,
                   updateInput, snapshot, snapshotIndices, visited>>
    /\ UNCHANGED <<fmmVars, gpuVars, builderVars, utilVars, osmVars, reproVars>>

ApplyNextState ==
    /\ pc = "apply"
    /\ simHolds = "write"
    /\ simHolds' = "none"
    /\ pausedAtCommit' = paused
    /\ UNCHANGED <<paused, readerPc>>
    /\ pedestrians' = IntegrateAll(pedestrians, next_state)
    /\ pc' = "loop"
    /\ phaseLog' = Append(phaseLog, "commit")
    /\ UNCHANGED <<neighbor_grid, neighbor_grid_indices, neighbor_grid_unit,
                   use_neighbor_grid, accelerations, next_state, pending, tick, spawned,
                   updateInput, snapshot, snapshotIndices, visited>>
    /\ UNCHANGED <<fmmVars, gpuVars, builderVars, utilVars, osmVars, reproVars>>

TickNext ==
    \/ LoopStart
    \/ AcquireWrite
    \/ SpawnPedestrians
    \/ RebuildGrid
    \/ AcquireRead
    \/ \E id \in 0 .. (MaxPeds - 1) : CalcTask(id)
    \/ CalcCollect
    \/ ApplyNextState

\* the headless run after main.rs:108: never paused, no reader before SIGINT
LoopHeadless ==
    /\ paused = FALSE
    /\ simHolds = "none"
    /\ readerPc = "idle"
    /\ pausedAtCommit = FALSE

GpuIdle ==
    /\ gpuStep = 0
    /\ gpuError = "none"

BuilderIdle ==
    /\ obstacle_exist = << >>
    /\ potential_maps = << >>
    /\ builderPc = "off"
    /\ added = << >>

UtilIdle ==
    /\ point = <<0, 0>>
    /\ line = <<<<0, 0>>, <<0, 0>>>>
    /\ called = "off"
    /\ output = 0

\* the SocialForceModel runs draw no optimizer phase
OsmIdle == phases = << >>

\* a single Simulator is stepped, its spawn stream is not compared
ReproIdle ==
    /\ seeded = << >>
    /\ spawn_rng = << >>
    /\ spawn_log = << >>

Init == TickInit /\ LoopHeadless /\ FmmIdle /\ GpuIdle /\ OsmIdle /\ ReproIdle /\ BuilderIdle /\ UtilIdle

Next == TickNext

Spec == Init /\ [][Next]_vars

\* no simulation thread is running
TickOff ==
    /\ pedestrians = << >>
    /\ neighbor_grid_unit = WideNeighborUnit
    /\ use_neighbor_grid = FALSE
    /\ neighbor_grid = << >>
    /\ neighbor_grid_indices = << >>
    /\ accelerations = << >>
    /\ next_state = << >>
    /\ pending = {}
    /\ pc = "off"
    /\ tick = 0
    /\ spawned = 0
    /\ updateInput = << >>
    /\ snapshot = << >>
    /\ snapshotIndices = << >>
    /\ phaseLog = << >>
    /\ visited = << >>

(***************************************************************************)
(* The simulation thread next to the renderer: pause flag and RwLock       *)
(***************************************************************************)
\* main.rs:69-71 with state.paused: the iteration runs no phase and sleeps
LoopPaused ==
    /\ pc = "loop"
    /\ paused
    /\ phaseLog' = << >>
    /\ UNCHANGED <<pedestrians, neighbor_grid, neighbor_grid_indices, neighbor_grid_unit,
                   use_neighbor_grid, accelerations, next_state, pending, pc, tick,
                   spawned, updateInput, snapshot, snapshotIndices, visited>>
    /\ UNCHANGED <<loopVars, fmmVars, gpuVars, builderVars, utilVars, osmVars, reproVars>>

\* the renderer toggles STATE.paused (renderer/mod.rs:245) at any moment
TogglePaused ==
    /\ paused' = ~paused
    /\ UNCHANGED <<simHolds, readerPc, pausedAtCommit>>
    /\ UNCHANGED <<tickVars, fmmVars, gpuVars, builderVars, utilVars, osmVars, reproVars>>

\* SIMULATOR.read() of the renderer (renderer/mod.rs:71) or of the log export
\* (main.rs:121): granted while no write guard is out
ReaderAcquireUnguarded ==
    /\ readerPc = "idle"
    /\ readerPc' = "reading"
    /\ UNCHANGED <<paused, simHolds, pausedAtCommit>>
    /\ UNCHANGED <<tickVars, fmmVars, gpuVars, builderVars, utilVars, osmVars, reproVars>>

ReaderAcquire ==
    /\ readerPc = "idle"
    /\ simHolds # "write"
    /\ readerPc' = "reading"
    /\ UNCHANGED <<paused, simHolds, pausedAtCommit>>
    /\ UNCHANGED <<tickVars, fmmVars, gpuVars, builderVars, utilVars, osmVars, reproVars>>

\* the read guard of the reader is dropped
ReaderRelease ==
    /\ readerPc = "reading"
    /\ readerPc' = "idle"
    /\ UNCHANGED <<paused, simHolds, pausedAtCommit>>
    /\ UNCHANGED <<tickVars, fmmVars, gpuVars, builderVars, utilVars, osmVars, reproVars>>

\* main.rs:21-24 and main.rs:61: STATE starts paused, SimulatorOptions::default()
InitLoop ==
    /\ TickInit
    /\ neighbor_grid_unit = DefaultNeighborUnit
    /\ use_neighbor_grid = TRUE
    /\ paused = TRUE
    /\ simHolds = "none"
    /\ readerPc = "idle"
    /\ pausedAtCommit = FALSE
    /\ FmmIdle /\ GpuIdle /\ OsmIdle /\ ReproIdle /\ BuilderIdle /\ UtilIdle

LoopNext ==
    \/ LoopStart
    \/ LoopPaused
    \/ AcquireWrite
    \/ SpawnPedestrians
    \/ RebuildGrid
    \/ AcquireRead
    \/ \E id \in 0 .. (MaxPeds - 1) : CalcTask(id)
    \/ CalcCollect
    \/ ApplyNextState
    \/ TogglePaused
    \/ ReaderAcquire
    \/ ReaderRelease

SpecLoop == InitLoop /\ [][LoopNext]_vars

(***************************************************************************)
(* The tick of SocialForceModelGpu                                         *)
(***************************************************************************)
\* the fallible steps of calc_next_state_kernel, in program order: the six
\* buffers (sfm_gpu.rs:225-259), the kernel (261-277), the enqueue (281), the
\* wait (283), the profiling queries (284-285) and the read-back (289)
GpuSteps == <<"buffers", "kernel", "enqueue", "wait", "profiling", "read">>

\* the accelerations the device returns; the kernel source sfm_gpu.cl is not
\* part of the sources, any of these values may come back (in cm/s^2)
KernelOutputs == {<<0, 0>>, <<200, -100>>}

\* sfm_gpu.rs:129-164: the pedestrians of the cells in row-major order
RECURSIVE GpuSortedFrom(_, _, _, _)
GpuSortedFrom(peds, data, unit, c) ==
    IF c >= GridRows(unit) * GridCols(unit) THEN << >>
    ELSE [j \in 1 .. Len(data[c]) |-> peds[data[c][j] + 1]]
             \o GpuSortedFrom(peds, data, unit, c + 1)

\* sfm_gpu.rs:165-169: cell.len() of every cell
GpuIndicesFrom(data, unit) ==
    [c \in 1 .. GridRows(unit) * GridCols(unit) |-> Len(data[c - 1])]

\* SocialForceModelGpu::spawn_pedestrians after the push loop, sfm_gpu.rs:125-173
GpuRebuildGrid ==
    /\ pc = "rebuild"
    /\ simHolds' = "none"
    /\ LET data == Update(Positions(pedestrians), neighbor_grid_unit)
       IN  /\ neighbor_grid' = data
           /\ updateInput' = Positions(pedestrians)
           /\ pedestrians' = GpuSortedFrom(pedestrians, data, neighbor_grid_unit, 0)
           /\ neighbor_grid_indices' = <<0>> \o GpuIndicesFrom(data, neighbor_grid_unit)
    /\ pc' = "calc"
    /\ accelerations' = << >>
    /\ snapshot' = pedestrians'
    /\ snapshotIndices' = neighbor_grid_indices'
    /\ phaseLog' = Append(phaseLog, "rebuild")
    /\ UNCHANGED <<neighbor_grid_unit, use_neighbor_grid, next_state, pending, tick,
                   spawned, visited>>
    /\ UNCHANGED <<paused, readerPc, pausedAtCommit>>
    /\ UNCHANGED <<fmmVars, gpuVars, builderVars, utilVars, osmVars, reproVars>>

\* calc_next_state_kernel with ped_count == 0 (sfm_gpu.rs:211-214): Ok(Vec::new())
GpuEmptyDispatched ==
    /\ pc = "calc"
    /\ simHolds = "read"
    /\ gpuStep = 0
    /\ Len(pedestrians) = 0
    /\ gpuStep' = 1
    /\ UNCHANGED gpuError
    /\ UNCHANGED <<tickVars, loopVars, fmmVars, builderVars, utilVars, osmVars, reproVars>>

GpuEmpty ==
    /\ pc = "calc"
    /\ simHolds = "read"
    /\ gpuStep = 0
    /\ Len(pedestrians) = 0
    /\ accelerations' = << >>
    /\ next_state' = << >>
    /\ pc' = "apply"
    /\ simHolds' = "none"
    /\ UNCHANGED <<pedestrians, neighbor_grid, neighbor_grid_indices, neighbor_grid_unit,
                   use_neighbor_grid, pending, tick, spawned, updateInput, snapshot,
                   snapshotIndices, phaseLog, visited>>
    /\ UNCHANGED <<paused, readerPc, pausedAtCommit>>
    /\ UNCHANGED <<fmmVars, gpuVars, builderVars, utilVars, osmVars, reproVars>>

\* one step of calc_next_state_kernel returns Ok; after the read-back the
\* accelerations are handed to update_states (sfm_gpu.rs:177)
GpuStepOk ==
    /\ pc = "calc"
    /\ simHolds = "read"
    /\ Len(pedestrians) > 0
    /\ gpuStep < Len(GpuSteps)
    /\ IF gpuStep + 1 < Len(GpuSteps)
       THEN /\ gpuStep' = gpuStep + 1
            /\ UNCHANGED <<accelerations, next_state, pc, simHolds, phaseLog>>
       ELSE /\ gpuStep' = 0
            /\ accelerations' \in [1 .. Len(pedestrians) -> KernelOutputs]
            /\ next_state' = accelerations'
            /\ pc' = "apply"
            /\ simHolds' = "none"
            /\ phaseLog' = Append(phaseLog, "dispatch")
    /\ UNCHANGED <<pedestrians, neighbor_grid, neighbor_grid_indices, neighbor_grid_unit,
                   use_neighbor_grid, pending, tick, spawned, updateInput, snapshot,
                   snapshotIndices, visited>>
    /\ UNCHANGED <<paused, readerPc, pausedAtCommit, gpuError>>
    /\ UNCHANGED <<fmmVars, builderVars, utilVars, osmVars, reproVars>>

\* one step returns Err: `?` hands it to update_states, whose unwrap()
\* (sfm_gpu.rs:177) panics; the unwinding drops the guard and ends the thread
GpuStepFailSwallowed ==
    /\ pc = "calc"
    /\ simHolds = "read"
    /\ Len(pedestrians) > 0
    /\ gpuStep < Len(GpuSteps)
    /\ gpuError' = GpuSteps[gpuStep + 1]
    /\ gpuStep' = 0
    /\ pc' = "loop"
    /\ simHolds' = "none"
    /\ UNCHANGED <<pedestrians, neighbor_grid, neighbor_grid_indices, neighbor_grid_unit,
                   use_neighbor_grid, accelerations, next_state, pending, tick, spawned,
                   updateInput, snapshot, snapshotIndices, phaseLog, visited>>
    /\ UNCHANGED <<paused, readerPc, pausedAtCommit>>
    /\ UNCHANGED <<fmmVars, builderVars, utilVars, osmVars, reproVars>>

GpuStepFail ==
    /\ pc = "calc"
    /\ simHolds = "read"
    /\ Len(pedestrians) > 0
    /\ gpuStep < Len(GpuSteps)
    /\ gpuError' = GpuSteps[gpuStep + 1]
    /\ pc' = "panicked"
    /\ simHolds' = "none"
    /\ UNCHANGED <<pedestrians, neighbor_grid, neighbor_grid_indices, neighbor_grid_unit,
                   use_neighbor_grid, accelerations, next_state, pending, tick, spawned,
                   updateInput, snapshot, snapshotIndices, phaseLog, visited>>
    /\ UNCHANGED <<paused, readerPc, pausedAtCommit, gpuStep>>
    /\ UNCHANGED <<fmmVars, builderVars, utilVars, osmVars, reproVars>>

\* the integration loop of update_states, sfm_gpu.rs:179-191
GpuApply ==
    /\ pc = "apply"
    /\ simHolds = "write"
    /\ simHolds' = "none"
    /\ pausedAtCommit' = paused
    /\ pedestrians' = IntegrateAll(pedestrians, next_state)
    /\ pc' = "loop"
    /\ phaseLog' = Append(phaseLog, "commit")
    /\ UNCHANGED <<neighbor_grid, neighbor_grid_indices, neighbor_grid_unit,
                   use_neighbor_grid, accelerations, next_state, pending, tick, spawned,
                   updateInput, snapshot, snapshotIndices, visited>>
    /\ UNCHANGED <<paused, readerPc>>
    /\ UNCHANGED <<fmmVars, gpuVars, builderVars, utilVars, osmVars, reproVars>>

\* Simulator::initialize with Backend::Gpu (lib.rs:42); the backend always
\* keeps a neighbor grid (sfm_gpu.rs:56)
InitGpu ==
    /\ TickInit
    /\ use_neighbor_grid = TRUE
    /\ LoopHeadless /\ FmmIdle /\ GpuIdle /\ OsmIdle /\ ReproIdle /\ BuilderIdle /\ UtilIdle

GpuNext ==
    \/ LoopStart
    \/ AcquireWrite
    \/ SpawnPedestrians
    \/ GpuRebuildGrid
    \/ AcquireRead
    \/ GpuEmpty
    \/ GpuStepOk
    \/ GpuStepFail
    \/ GpuApply

SpecGpu == InitGpu /\ [][GpuNext]_vars

(***************************************************************************)
(* util.rs and the field queries as functions of their arguments           *)
(***************************************************************************)
\* the grid of tests::test_bilinear, [[1, 0, 4], [3, 1, -1]], in 1/1600
TestGrid == << <<1600, 0, 6400>>, <<4800, 1600, -1600>> >>

\* query positions in cm (for bilinear: grid-local, one cell = FieldUnit)
PointInputs ==
    {-300, -50, 0, 50, 100, 200, 300, 400, 450, 600, 1100, 1150, 1300, 1400}
        \X {-150, 0, 50, 100, 200, 250, 300, 400, 700, 750, 1000}

\* segments in cm: the one of tests::test_distance_from_line, a vertical and a
\* diagonal one, and two of zero length
SegmentInputs ==
    { <<<<100, 100>>, <<400, 100>>>>,
      <<<<300, 0>>, <<300, 200>>>>,
      <<<<0, 0>>, <<300, 300>>>>,
      <<<<100, 100>>, <<100, 100>>>>,
      <<<<0, 0>>, <<0, 0>>>> }

\* util::distance_from_line; t = clamp(a.b / |b|^2, 0, 1) is kept as the
\* fraction d / |b|^2 with d = clamp(a.b, 0, |b|^2)
DistanceFromLine(p, segment) ==
    LET a == VSub(p, segment[1])
        b == VSub(segment[2], segment[1])
        b_len2 == LengthSquared(b)
        d == Max2(0, Min2(Dot(a, b), b_len2))
    IN  IF b_len2 = 0 THEN VSub(a, segment[1])
        ELSE VSub(a, <<TruncDiv(d * b[1], b_len2), TruncDiv(d * b[2], b_len2)>>)

\* Field::get_potential(waypoint_id, position)
CallGetPotential ==
    /\ called = "none"
    /\ \E waypoint \in 0 .. (Len(PotentialMaps) - 1) :
           output' = GetPotential(waypoint, point)
    /\ called' = "get_potential"
    /\ UNCHANGED <<point, line>>
    /\ UNCHANGED <<fmmVars, tickVars, loopVars, gpuVars, builderVars, osmVars, reproVars>>

\* util::bilinear(&grid, pos) on the grid of the unit test
CallBilinear ==
    /\ called = "none"
    /\ output' = Bilinear(TestGrid, point)
    /\ called' = "bilinear"
    /\ UNCHANGED <<point, line>>
    /\ UNCHANGED <<fmmVars, tickVars, loopVars, gpuVars, builderVars, osmVars, reproVars>>

\* util::distance_from_line(point, line)
CallDistanceFromLine ==
    /\ called = "none"
    /\ output' = DistanceFromLine(point, line)
    /\ called' = "distance_from_line"
    /\ UNCHANGED <<point, line>>
    /\ UNCHANGED <<fmmVars, tickVars, loopVars, gpuVars, builderVars, osmVars, reproVars>>

InitUtil ==
    /\ point \in PointInputs
    /\ line \in SegmentInputs
    /\ called = "none"
    /\ output = 0
    /\ FmmIdle /\ TickOff /\ LoopHeadless /\ GpuIdle /\ OsmIdle /\ ReproIdle /\ BuilderIdle

UtilNext ==
    \/ CallGetPotential
    \/ CallBilinear
    \/ CallDistanceFromLine

SpecUtil == InitUtil /\ [][UtilNext]_vars

(***************************************************************************)
(* FieldBuilder: the obstacle mask and the waypoint rasters                *)
(***************************************************************************)
MaxAddCalls == 3

FieldCells == 0 .. (FieldRows * FieldCols - 1)

\* scenario.obstacles: segments with a width, in cm; the last two have
\* coinciding end points
ObstacleInputs ==
    { [line |-> <<<<300, 300>>, <<700, 300>>>>, width |-> 100],
      [line |-> <<<<500, 300>>, <<500, 500>>>>, width |-> 0],
      [line |-> <<<<700, 500>>, <<900, 500>>>>, width |-> 100],
      [line |-> <<<<-100, 500>>, <<300, 500>>>>, width |-> 0],
      [line |-> <<<<500, 500>>, <<500, 500>>>>, width |-> 100],
      [line |-> <<<<500, 500>>, <<500, 500>>>>, width |-> 0] }

\* scenario.waypoints
WaypointInputs ==
    { [line |-> <<<<300, 300>>, <<300, 500>>>>, width |-> 100],
      [line |-> <<<<900, 300>>, <<900, 300>>>>, width |-> 0] }

\* FieldBuilder::new, field.rs:27-32: the first and last row and column are true
NewObstacleExist ==
    [c \in FieldCells |->
        \/ c \div FieldCols = 0
        \/ c \div FieldCols = FieldRows - 1
        \/ c % FieldCols = 0
        \/ c % FieldCols = FieldCols - 1]

\* util::line_with_width: a = (line[1] - line[0]).normalize() is NaN for a
\* zero-length segment (0 * (1 / 0)), and so is every vertex, whatever the width
LineWithWidth(segment, width) ==
    IF segment[1] = segment[2] THEN [finite |-> FALSE, vertices |-> << >>]
    ELSE LET a == Normalize(VSub(segment[2], segment[1]))
             b == <<TruncDiv(a[2] * width, 2000), TruncDiv(-a[1] * width, 2000)>>
         IN  [finite |-> TRUE,
              vertices |-> <<VSub(segment[1], b), VAdd(segment[1], b),
                             VAdd(segment[2], b), VSub(segment[2], b)>>]

MinOf(S) == CHOOSE x \in S : \A y \in S : x <= y

MaxOf(S) == CHOOSE x \in S : \A y \in S : x >= y

\* Rasterizer::rasterize of the closed outline v / unit (field.rs:44-61):
\* Err(NonFiniteCoordinate) for a NaN vertex; otherwise the cells of the grid the
\* outline passes through, which for the axis-aligned outlines modelled here
\* are the cells of its bounding box
Rasterize(shape) ==
    IF ~shape.finite THEN [ok |-> FALSE, cells |-> {}]
    ELSE LET xs == {shape.vertices[k][1] \div FieldUnit : k \in 1 .. 4}
             ys == {shape.vertices[k][2] \div FieldUnit : k \in 1 .. 4}
         IN  [ok |-> TRUE,
              cells |-> {c \in FieldCells :
                            /\ MinOf(xs) <= c % FieldCols /\ c % FieldCols <= MaxOf(xs)
                            /\ MinOf(ys) <= c \div FieldCols /\ c \div FieldCols <= MaxOf(ys)}]

\* FieldBuilder::add_obstacle: rasterize(..).unwrap(), then *a |= b on every cell
AddObstacleOverwrite(o) ==
    /\ builderPc = "building"
    /\ Len(added) < MaxAddCalls
    /\ LET grid == Rasterize(LineWithWidth(o.line, o.width))
       IN  IF grid.ok
           THEN /\ obstacle_exist' = [c \in FieldCells |-> c \in grid.cells]
                /\ added' = Append(added, o)
                /\ UNCHANGED builderPc
           ELSE /\ builderPc' = "panicked"
                /\ UNCHANGED <<obstacle_exist, added>>
    /\ UNCHANGED potential_maps
    /\ UNCHANGED <<fmmVars, tickVars, loopVars, gpuVars, utilVars, osmVars, reproVars>>

AddObstacle(o) ==
    /\ builderPc = "building"
    /\ Len(added) < MaxAddCalls
    /\ LET grid == Rasterize(LineWithWidth(o.line, o.width))
       IN  IF grid.ok
           THEN /\ obstacle_exist' =
                       [c \in FieldCells |-> obstacle_exist[c] \/ c \in grid.cells]
                /\ added' = Append(added, o)
                /\ UNCHANGED builderPc
           ELSE /\ builderPc' = "panicked"
                /\ UNCHANGED <<obstacle_exist, added>>
    /\ UNCHANGED potential_maps
    /\ UNCHANGED <<fmmVars, tickVars, loopVars, gpuVars, utilVars, osmVars, reproVars>>

\* FieldBuilder::add_waypoint: rasterize(.., 0.0).unwrap() over a background of
\* f32::MAX; the pushed grid is kept as the set of its cells with value 0
AddWaypoint(w) ==
    /\ builderPc = "building"
    /\ Len(potential_maps) < MaxAddCalls
    /\ LET grid == Rasterize(LineWithWidth(w.line, w.width))
       IN  IF grid.ok
           THEN /\ potential_maps' = Append(potential_maps, grid.cells)
                /\ UNCHANGED builderPc
           ELSE /\ builderPc' = "panicked"
                /\ UNCHANGED potential_maps
    /\ UNCHANGED <<obstacle_exist, added>>
    /\ UNCHANGED <<fmmVars, tickVars, loopVars, gpuVars, utilVars, osmVars, reproVars>>

\* the builder right after FieldBuilder::new
InitBuilder ==
    /\ obstacle_exist = NewObstacleExist
    /\ potential_maps = << >>
    /\ builderPc = "building"
    /\ added = << >>
    /\ FmmIdle /\ TickOff /\ LoopHeadless /\ GpuIdle /\ OsmIdle /\ ReproIdle /\ UtilIdle

BuilderNext ==
    \/ \E o \in ObstacleInputs : AddObstacle(o)
    \/ \E w \in WaypointInputs : AddWaypoint(w)

SpecBuilder == InitBuilder /\ [][BuilderNext]_vars

offFmmVars == <<tickVars, loopVars, gpuVars, builderVars, utilVars, osmVars, reproVars>>

FmmNext ==
    \/ FmmSeed /\ UNCHANGED offFmmVars
    \/ FmmSeedDone /\ UNCHANGED offFmmVars
    \/ FmmDiscard /\ UNCHANGED offFmmVars
    \/ FmmAccept /\ UNCHANGED offFmmVars
    \/ FmmFinish /\ UNCHANGED offFmmVars

InitFmm == FmmInit /\ TickOff /\ LoopHeadless /\ GpuIdle /\ OsmIdle /\ ReproIdle /\ BuilderIdle /\ UtilIdle

SpecFmm == InitFmm /\ [][FmmNext]_vars

(***************************************************************************)
(* Claims about apply_fmm                                                  *)
(***************************************************************************)
Neighbors4(c) == {IndexAdd(c, d[2], d[1]) : d \in {Directions[k] : k \in 1 .. 4}} \ {-1}

QueueCells == {queue[k][2] : k \in 1 .. Len(queue)}

StaleOnTop == fmmPc = "march" /\ queue # << >> /\ accepted[queue[HeapTop(queue)][2]]

\* C4: a cell is marked Accepted at most once; popping an entry whose cell is
\* already Accepted only removes that entry; the potential of an Accepted cell
\* never changes again.
C4_AcceptedOnce ==
    [][/\ \A c \in FmmCells :
            /\ acceptCount'[c] <= 1
            /\ accepted[c] => /\ accepted'[c]
                              /\ potential'[c] = potential[c]
                              /\ acceptCount'[c] = acceptCount[c]
       /\ StaleOnTop => /\ potential' = potential
                        /\ accepted' = accepted
                        /\ Len(queue') = Len(queue) - 1
                        /\ lastPop'[1] = "discard"]_fmmVars

\* a stale entry has been discarded after its cell was accepted through a relaxation
C4_Witness ==
    /\ lastPop[1] = "discard"
    /\ lastPop[3] \notin seeds
    /\ acceptCount[lastPop[3]] = 1

\* C5: a seed cell keeps potential 0 throughout the solve and in the output; it
\* is Accepted by the first loop and never enters the queue.
C5_SeedsStayZero ==
    \A c \in seeds :
        /\ potential[c] = 0
        /\ c \notin QueueCells
        /\ (c < scan => accepted[c])

\* the solve has finished on two adjacent seeds
C5_Witness ==
    /\ fmmPc = "done"
    /\ \E c \in seeds : Neighbors4(c) \cap seeds # {}
    /\ \E c \in FmmCells \ seeds : accepted[c]

\* breadth-first hop count from the seed set through obstacle-free cells
FreeCells == {c \in FmmCells : cost[c] = FreeCost}

RECURSIVE HopLayers(_, _, _)
HopLayers(frontier, seen, k) ==
    IF frontier = {} THEN [c \in {} |-> 0]
    ELSE LET next == {n \in FreeCells \ seen : \E c \in frontier : n \in Neighbors4(c)}
             rest == HopLayers(next, seen \cup next, k + 1)
         IN  [c \in frontier \cup DOMAIN rest |-> IF c \in frontier THEN k ELSE rest[c]]

Hops == HopLayers(seeds, seeds, 0)

\* C6 as stated: fewer obstacle-free hops to the seed set implies a potential
\* that is not larger.
C6_HopMonotone ==
    fmmPc = "done" =>
        \A a \in DOMAIN Hops : \A b \in DOMAIN Hops :
            Hops[a] < Hops[b] => potential[a] <= potential[b]

\* C6 amended: in the output every solved cell that is not a seed has a
\* 4-neighbour whose potential is not larger (no local minimum off the seeds).
C6_DescentNeighbor ==
    fmmPc = "done" =>
        \A b \in FmmCells \ seeds :
            accepted[b] => \E a \in Neighbors4(b) : accepted[a] /\ potential[a] <= potential[b]

\* a solve has finished in which a cell got its value from the two-axis formula
C6_Witness ==
    /\ fmmPc = "done"
    /\ seeds # {}
    /\ \E b \in FmmCells \ seeds :
          /\ accepted[b]
          /\ \A a \in Neighbors4(b) : potential[b] < potential[a] + cost[b]

\* C7 as stated: every cell whose potential is fed to the upwind formula is
\* Accepted.
C7_FedOnlyAccepted == \A c \in fed : accepted[c]

(***************************************************************************)
(* Claims about the tick of the SocialForceModel and the NeighborGrid      *)
(***************************************************************************)
SnapshotAccelerations ==
    [k \in 1 .. Len(snapshot) |->
        Acceleration(snapshot, use_neighbor_grid, neighbor_grid_unit, snapshotIndices, k - 1)]

\* C1: during force evaluation the stored pedestrians are the snapshot taken
\* before it, every finished task holds the acceleration computed from that
\* snapshot, and the committed state is the integration of the snapshot with
\* those accelerations, whatever the order of the tasks.
C1_SnapshotOnly ==
    /\ pc \in {"calc", "apply"} => pedestrians = snapshot
    /\ pc \in {"calc", "apply"} =>
           \A id \in (0 .. (Len(snapshot) - 1)) \ pending :
               accelerations[id + 1] = SnapshotAccelerations[id + 1]
    /\ (pc = "loop" /\ tick > 0) =>
           pedestrians = IntegrateAll(snapshot, SnapshotAccelerations)

\* a tick has been committed in which two moving pedestrians repelled each other
C1_Witness ==
    /\ pc = "loop"
    /\ tick > 1
    /\ \E i \in 1 .. Len(snapshot) : \E j \in 1 .. Len(snapshot) :
          /\ i # j
          /\ (j - 1) \in visited[i]
          /\ snapshot[j].velocity # <<0, 0>>
          /\ PairForce(snapshot[i].position, <<1000, 0>>, snapshot[j]) # <<0, 0>>
          /\ pedestrians[i].position # snapshot[i].position

ExpectedPhase(k) ==
    IF k = 1 THEN "spawn"
    ELSE IF k = 2 THEN "rebuild"
    ELSE IF k <= 2 + Len(snapshot) THEN "eval"
    ELSE "commit"

\* C2: the phases of a tick occur in the order spawn, grid rebuild, one force
\* evaluation per stored pedestrian, commit; no evaluation precedes the
\* rebuild and the commit follows the last evaluation.
C2_PhaseOrder ==
    /\ \A k \in 1 .. Len(phaseLog) : phaseLog[k] = ExpectedPhase(k)
    /\ Len(phaseLog) >= 2 => Len(phaseLog) <= 3 + Len(snapshot)
    /\ pc = "apply" => pending = {} /\ Len(phaseLog) = 2 + Len(snapshot)
    /\ pc = "calc" => Len(phaseLog) = 2 + Len(snapshot) - Cardinality(pending)

\* a second tick with two force evaluations has been committed
C2_Witness ==
    /\ pc = "loop"
    /\ tick = 2
    /\ Len(snapshot) = 2
    /\ phaseLog = <<"spawn", "rebuild", "eval", "eval", "commit">>

FloorCell(pos, unit) ==
    LET x == pos[1] \div unit
        y == pos[2] \div unit
    IN  y * GridCols(unit) + x

CellsHolding(i) ==
    {c \in DOMAIN neighbor_grid : \E k \in 1 .. Len(neighbor_grid[c]) : neighbor_grid[c][k] = i}

\* C3 as stated: after update every index of the input is in exactly one cell
\* list, the cell floor(pos / unit), and the grid holds nothing else.
C3_EveryIndexInItsCell ==
    (use_neighbor_grid /\ pc = "calc") =>
        /\ \A i \in 0 .. (Len(updateInput) - 1) :
               CellsHolding(i) = {FloorCell(updateInput[i + 1], neighbor_grid_unit)}
        /\ \A c \in DOMAIN neighbor_grid : \A k \in 1 .. Len(neighbor_grid[c]) :
               /\ neighbor_grid[c][k] < Len(updateInput)
               /\ \A m \in 1 .. Len(neighbor_grid[c]) :
                      neighbor_grid[c][k] = neighbor_grid[c][m] => k = m

\* C8: after spawn_pedestrians with the grid enabled neighbor_grid_indices has
\* rows*cols+1 entries, starts at 0, does not decrease, ends at the number of
\* stored pedestrians, and the slice of cell c holds exactly the stored
\* pedestrians whose bucket is c (so the storage is sorted by cell).
C8_SortedPrefixSums ==
    (use_neighbor_grid /\ pc = "calc") =>
        LET n == GridRows(neighbor_grid_unit) * GridCols(neighbor_grid_unit)
        IN  /\ Len(neighbor_grid_indices) = n + 1
            /\ neighbor_grid_indices[1] = 0
            /\ \A c \in 1 .. n : neighbor_grid_indices[c] <= neighbor_grid_indices[c + 1]
            /\ neighbor_grid_indices[n + 1] = Len(pedestrians)
            /\ \A c \in 0 .. (n - 1) : \A k \in 1 .. Len(pedestrians) :
                   (neighbor_grid_indices[c + 1] <= k - 1 /\ k - 1 < neighbor_grid_indices[c + 2])
                       <=> Bucket(pedestrians[k].position, neighbor_grid_unit) = c

\* spawn_pedestrians has reordered two pedestrians of different cells
C8_Witness ==
    /\ use_neighbor_grid
    /\ pc = "calc"
    /\ Len(pedestrians) = 2
    /\ pedestrians[1].uid > pedestrians[2].uid
    /\ Bucket(pedestrians[1].position, neighbor_grid_unit)
           < Bucket(pedestrians[2].position, neighbor_grid_unit)

\* C9: with a grid unit of at least the cutoff radius, the neighbor loop of a
\* finished task visits every other stored pedestrian within the cutoff and
\* never the pedestrian itself.
C9_BlockQuerySound ==
    (use_neighbor_grid /\ pc \in {"calc", "apply"}
        /\ neighbor_grid_unit * neighbor_grid_unit >= CutoffSquared) =>
        \A id \in (0 .. (Len(snapshot) - 1)) \ pending :
            /\ id \notin visited[id + 1]
            /\ \A j \in (0 .. (Len(snapshot) - 1)) \ {id} :
                   LengthSquared(VSub(snapshot[id + 1].position, snapshot[j + 1].position))
                       <= CutoffSquared
                   => j \in visited[id + 1]

\* two pedestrians of different cells within the cutoff have visited each other
C9_Witness ==
    /\ use_neighbor_grid
    /\ neighbor_grid_unit * neighbor_grid_unit >= CutoffSquared
    /\ pc = "apply"
    /\ Len(snapshot) = 2
    /\ Bucket(snapshot[1].position, neighbor_grid_unit)
           # Bucket(snapshot[2].position, neighbor_grid_unit)
    /\ LengthSquared(VSub(snapshot[1].position, snapshot[2].position)) <= CutoffSquared
    /\ visited = <<{1}, {0}>>

Uids(peds) == {peds[k].uid : k \in 1 .. Len(peds)}

\* C10: after spawn_pedestrians every stored pedestrian has a destination
\* potential above the arrival threshold, during force evaluation and
\* integration alike, and a pedestrian that left the storage never returns.
C10_ArrivedRemoved ==
    /\ [](pc \in {"calc", "apply"} =>
            \A k \in 1 .. Len(pedestrians) :
                GetPotential(pedestrians[k].destination, pedestrians[k].position)
                    > ArrivalThreshold)
    /\ [][\A u \in 1 .. spawned : u \notin Uids(pedestrians) => u \notin Uids(pedestrians')]_vars

\* a pedestrian that walked below the threshold has been removed by the next spawn
C10_Witness ==
    /\ ~use_neighbor_grid
    /\ pc = "calc"
    /\ tick > 1
    /\ Len(pedestrians) < spawned

(***************************************************************************)
(* Claims about the simulation thread, the pause flag and the lock         *)
(***************************************************************************)
\* C11: the pedestrian array, the neighbor grid and its index ranges change
\* only in steps of the simulation thread that hold the write guard while no
\* reader holds a guard; force evaluation runs under the read guard; a reader
\* never holds its guard while the write guard is out, so it never reads during
\* a rebuild or a commit.
C11_WritesUnderWriteLock ==
    /\ [](readerPc = "reading" => simHolds # "write")
    /\ [](pc = "rebuild" => simHolds = "write")
    /\ [][/\ (\/ pedestrians' # pedestrians
               \/ neighbor_grid' # neighbor_grid
               \/ neighbor_grid_indices' # neighbor_grid_indices)
               => (simHolds = "write" /\ readerPc = "idle" /\ readerPc' = "idle")
          /\ (accelerations' # accelerations /\ pc = "calc") => simHolds = "read"]_vars

\* the renderer reads while the force evaluation is half done
C11_Witness ==
    /\ readerPc = "reading"
    /\ pc = "calc"
    /\ simHolds = "read"
    /\ Cardinality(pending) = 1
    /\ Len(pedestrians) = 2

FullPhaseLog(n) == <<"spawn", "rebuild">> \o [k \in 1 .. n |-> "eval"] \o <<"commit">>

\* C12: an iteration that finds the flag set runs no phase and changes no
\* pedestrian state; an iteration that finds it clear runs spawn, rebuild, force
\* evaluation and commit once each in this order, and returns to the loop head
\* only through the commit, whatever the flag does meanwhile.
C12_TickNotCancelled ==
    [][/\ (pc = "loop" /\ paused) =>
              /\ pc' = "loop"
              /\ tick' = tick
              /\ <<pedestrians, neighbor_grid, neighbor_grid_indices>>'
                     = <<pedestrians, neighbor_grid, neighbor_grid_indices>>
       /\ (pc = "loop" /\ pc' # "loop") => (~paused /\ pc' = "spawn" /\ tick' = tick + 1)
       /\ pc = "spawn" => pc' \in {"spawn", "rebuild"}
       /\ pc = "rebuild" => pc' \in {"rebuild", "calc"}
       /\ pc = "calc" => pc' \in {"calc", "apply"}
       /\ pc = "apply" => pc' \in {"apply", "loop"}
       /\ (pc = "apply" /\ pc' = "loop") =>
              /\ phaseLog' = FullPhaseLog(Len(snapshot))
              /\ pedestrians' = IntegrateAll(snapshot, next_state)]_vars

\* a tick was committed although the flag had been set in the middle of it
C12_Witness ==
    /\ pc = "loop"
    /\ tick = 2
    /\ pausedAtCommit
    /\ Len(snapshot) = 2
    /\ phaseLog = FullPhaseLog(2)

C15_GpuSpawnMatchesCpu ==
    [][(pc = "rebuild" /\ pc' = "calc") =>
          LET data == Update(Positions(pedestrians), neighbor_grid_unit)
          IN  /\ pedestrians' = SortedFrom(pedestrians, data, neighbor_grid_unit, 0)
              /\ neighbor_grid_indices' =
                     <<0>> \o IndicesFrom(pedestrians, data, neighbor_grid_unit, 0, 0)]_vars

(***************************************************************************)
(* Claims about the FieldBuilder                                           *)
(***************************************************************************)
RasterOf(o) == Rasterize(LineWithWidth(o.line, o.width)).cells

\* C16: after FieldBuilder::new and any add_obstacle calls every cell of the
\* first and last row and column is true, a cell is true exactly if it is a
\* border cell or lies in the raster of some added obstacle (so the order of
\* the calls does not matter), and no call turns a true cell false.
C16_MaskIsUnion ==
    /\ [](\A c \in FieldCells :
             /\ NewObstacleExist[c] => obstacle_exist[c]
             /\ obstacle_exist[c] <=>
                    (\/ c \div FieldCols \in {0, FieldRows - 1}
                     \/ c % FieldCols \in {0, FieldCols - 1}
                     \/ \E o \in {added[k] : k \in 1 .. Len(added)} : c \in RasterOf(o)))
    /\ [][\A c \in FieldCells : obstacle_exist[c] => obstacle_exist'[c]]_vars

\* three obstacles have been added, the last one inside the raster of the first
C16_Witness ==
    /\ Len(added) = 3
    /\ RasterOf(added[1]) \cap RasterOf(added[3]) # {}
    /\ RasterOf(added[2]) \ RasterOf(added[1]) # {}
    /\ \E c \in FieldCells : obstacle_exist[c] /\ ~NewObstacleExist[c]
    /\ \E c \in FieldCells : ~obstacle_exist[c]

\* C17 as stated: add_obstacle and add_waypoint complete for a segment whose
\* end points coincide, and add at most one cell.
C17_DegenerateNeverFails ==
    /\ [](builderPc # "panicked")
    /\ [][/\ (Len(added') > Len(added)
               /\ added'[Len(added')].line[1] = added'[Len(added')].line[2])
               => Cardinality({c \in FieldCells : obstacle_exist'[c] /\ ~obstacle_exist[c]}) <= 1
          /\ Len(potential_maps') > Len(potential_maps)
               => potential_maps'[Len(potential_maps')] # {}]_vars

(***************************************************************************)
(* Claims about the field queries and util.rs                              *)
(***************************************************************************)
\* the grid-local coordinate of a position lies below 0 or above the last index
OutsideGrid(g, grid) ==
    \/ g[1] < 0
    \/ g[2] < 0
    \/ g[1] > (Len(grid[1]) - 1) * FieldUnit
    \/ g[2] > (Len(grid) - 1) * FieldUnit

\* C18 as stated: for a position outside the grid Field::get_potential returns
\* at least the sentinel FMAX.
C18_OutsideReturnsSentinel ==
    (called = "get_potential" /\ OutsideGrid(GridLocal(point), PotentialMaps[1]))
        => output >= BilinearFMax

\* the closest point of the closed segment to p, times |b|^2 (exact in integers)
ClosestTimesLen2(p, segment) ==
    LET b == VSub(segment[2], segment[1])
        l2 == LengthSquared(b)
        dot == Dot(VSub(p, segment[1]), b)
    IN  IF dot <= 0 THEN <<segment[1][1] * l2, segment[1][2] * l2>>
        ELSE IF dot >= l2 THEN <<segment[2][1] * l2, segment[2][2] * l2>>
        ELSE <<segment[1][1] * l2 + dot * b[1], segment[1][2] * l2 + dot * b[2]>>

\* C19 as stated: distance_from_line returns point minus the closest point of
\* the closed segment, and point minus the end point for a zero-length segment.
C19_DisplacementFromSegment ==
    called = "distance_from_line" =>
        LET l2 == LengthSquared(VSub(line[2], line[1]))
        IN  IF l2 = 0 THEN output = VSub(point, line[1])
            ELSE <<output[1] * l2, output[2] * l2>>
                     = VSub(<<point[1] * l2, point[2] * l2>>, ClosestTimesLen2(point, line))

CellOrZero(grid, x, y) ==
    IF x < 0 \/ y < 0 \/ y >= Len(grid) \/ x >= Len(grid[1]) THEN 0 ELSE grid[y + 1][x + 1]

\* C20: inside the grid bilinear returns the mean of the four surrounding
\* cells weighted by (1-tx)(1-ty), tx(1-ty), (1-tx)ty, tx*ty, a cell that does
\* not exist counting nothing, so the result lies between the least and the
\* greatest cell; at integer coordinates it returns the cell itself.
C20_BilinearWeightedMean ==
    (called = "bilinear" /\ ~OutsideGrid(point, TestGrid)) =>
        LET bx == point[1] \div FieldUnit
            by == point[2] \div FieldUnit
            tx == point[1] % FieldUnit
            ty == point[2] % FieldUnit
            sx == FieldUnit - tx
            sy == FieldUnit - ty
        IN  /\ output >= -1600 /\ output <= 6400
            /\ output * FieldUnit * FieldUnit =
                   sy * sx * CellOrZero(TestGrid, bx, by)
                 + sy * tx * CellOrZero(TestGrid, bx + 1, by)
                 + ty * sx * CellOrZero(TestGrid, bx, by + 1)
                 + ty * tx * CellOrZero(TestGrid, bx + 1, by + 1)
            /\ (tx = 0 /\ ty = 0) => output = TestGrid[by + 1][bx + 1]
            /\ point = <<0, 0>> => output = 1600
            /\ point = <<100, 0>> => output = 800
            /\ point = <<0, 50>> => output = 2400
            /\ point = <<100, 100>> => output = 2000

\* bilinear has been applied at the last cell of the last row, whose three
\* neighbours do not exist
C20_Witness ==
    /\ called = "bilinear"
    /\ point = <<400, 200>>
    /\ output = -1600

(***************************************************************************)
(* The integration loop of update_states as a function of its inputs       *)
(***************************************************************************)
\* velocities a pedestrian can enter the loop with, in cm/s
VelocityInputs == {<<0, 0>>, <<120, -40>>, <<-100, 140>>}
\* values of f32_normal_approx(1.34, 0.26) (sfm.rs:54), in cm/s
DesiredSpeedInputs == {82, 134, 186}
\* accelerations the parallel map can return, in cm/s^2, small and very large
AccelerationInputs ==
    {<<0, 0>>, <<270, -130>>, <<-1000, 400>>, <<6000, 8000>>, <<-100000, 30000>>}

InitIntegrate ==
    /\ \E v \in VelocityInputs, d \in DesiredSpeedInputs :
           pedestrians = << [position |-> <<600, 400>>, destination |-> SpawnDestination,
                             velocity |-> v, desired_speed |-> d, uid |-> 1] >>
    /\ neighbor_grid_unit = WideNeighborUnit
    /\ use_neighbor_grid = FALSE
    /\ neighbor_grid = << >>
    /\ neighbor_grid_indices = << >>
    /\ accelerations = << >>
    /\ next_state = << >>
    /\ pending = {}
    /\ pc = "integrate"
    /\ tick = 0
    /\ spawned = 1
    /\ updateInput = << >>
    /\ snapshot = << >>
    /\ snapshotIndices = << >>
    /\ phaseLog = << >>
    /\ visited = << >>
    /\ LoopHeadless /\ FmmIdle /\ GpuIdle /\ OsmIdle /\ ReproIdle /\ BuilderIdle /\ UtilIdle

\* sfm.rs:188-201: the collected accelerations are integrated into the state
IntegrationLoop ==
    /\ pc = "integrate"
    /\ tick < MaxTicks
    /\ \E acc \in AccelerationInputs :
           /\ accelerations' = <<acc>>
           /\ next_state' = <<acc>>
           /\ pedestrians' = IntegrateAll(pedestrians, <<acc>>)
    /\ snapshot' = pedestrians
    /\ tick' = tick + 1
    /\ UNCHANGED <<neighbor_grid, neighbor_grid_indices, neighbor_grid_unit,
                   use_neighbor_grid, pending, pc, spawned, updateInput,
                   snapshotIndices, phaseLog, visited>>
    /\ UNCHANGED <<loopVars, fmmVars, gpuVars, builderVars, utilVars, osmVars, reproVars>>

IntegrateNext == IntegrationLoop

SpecIntegrate == InitIntegrate /\ [][IntegrateNext]_vars

OldCutoffSquared == 40000
\* hard-core distance 0.4 m, in cm
OldCoreDistance == 40

\* simulator/neighbor_grid.rs:26-28: (pos / unit).as_ivec2() + 1, -1 outside
OldBucket(pos, unit) ==
    LET x == TruncDiv(pos[1], unit) + 1
        y == TruncDiv(pos[2], unit) + 1
    IN  IF x < 0 \/ y < 0 \/ x >= GridCols(unit) \/ y >= GridRows(unit) THEN -1
        ELSE y * GridCols(unit) + x

\* simulator/neighbor_grid.rs:22-35
RECURSIVE OldUpdateFrom(_, _, _, _)
OldUpdateFrom(data, positions, unit, k) ==
    IF k > Len(positions) THEN data
    ELSE LET c == OldBucket(positions[k], unit)
         IN  IF c = -1 THEN OldUpdateFrom(data, positions, unit, k + 1)
             ELSE OldUpdateFrom([data EXCEPT ![c] = Append(@, k - 1)], positions, unit, k + 1)

OldUpdate(positions, unit) ==
    OldUpdateFrom([c \in GridCells(unit) |-> << >>], positions, unit, 1)

\* the copies of the cells in row-major order (sfm.rs:77-80, osm.rs:51-55)
RECURSIVE OldSortedFrom(_, _, _, _)
OldSortedFrom(peds, data, unit, c) ==
    IF c >= GridRows(unit) * GridCols(unit) THEN << >>
    ELSE [j \in 1 .. Len(data[c]) |-> peds[data[c][j] + 1]]
             \o OldSortedFrom(peds, data, unit, c + 1)

\* index += cell.len(); push(index) (sfm.rs:81-82, osm.rs:56-57)
RECURSIVE OldIndicesFrom(_, _, _, _)
OldIndicesFrom(data, unit, c, index) ==
    IF c >= GridRows(unit) * GridCols(unit) THEN << >>
    ELSE LET n == index + Len(data[c])
         IN  <<n>> \o OldIndicesFrom(data, unit, c + 1, n)

\* the positions of neighbor_grid_indices read by the loop of sfm.rs:107-121 and
\* the index ranges i_start..i_end it iterates
OldBlockReads(pos, unit) ==
    LET cols == GridCols(unit)
        rows == GridRows(unit)
        ix == TruncDiv(pos[1], unit) + 1
        iy == TruncDiv(pos[2], unit) + 1
        y_start == Max2(iy - 1, 0)
        y_end == Min2(iy + 1, rows - 1)
        x_start == Max2(ix - 1, 0)
        x_end == Min2(ix + 1, cols - 1)
    IN  {<<y * cols + x_start, y * cols + x_end + 1>> : y \in y_start .. y_end}

OldBlock(pos, unit, indices) ==
    UNION {indices[r[1] + 1] .. (indices[r[2] + 1] - 1) : r \in OldBlockReads(pos, unit)}

OldVisited(peds, unit, indices, id) == OldBlock(peds[id + 1].position, unit, indices) \ {id}

\* sfm.rs:125-148 of the earlier model
OldPairForce(pos, o) ==
    LET difference == VSub(pos, o.position)
        distance_squared == LengthSquared(difference)
        distance == Sqrt(distance_squared)
        direction == Normalize(difference)
        vel_i == o.velocity
        t1 == VSub(difference, VMulDiv(vel_i, 1, 10))
        t1_length == Length(t1)
        t2 == distance + t1_length
        b == Sqrt(t2 * t2 - (Length(vel_i) \div 10) * (Length(vel_i) \div 10)) \div 2
        nabla_b == IF b = 0 \/ t1_length = 0 THEN <<0, 0>>
                   ELSE VMulDiv(VAdd(direction, VMulDiv(t1, 1000, t1_length)), t2, 4 * b)
    IN  IF distance_squared > OldCutoffSquared THEN <<0, 0>>
        ELSE IF distance <= OldCoreDistance THEN VMulDiv(direction, 100, 1)
        ELSE VMulDiv(nabla_b, 700 * ExpMilli(b, 21), 1000000)

RECURSIVE OldSumPairForces(_, _, _)
OldSumPairForces(peds, pos, ids) ==
    IF ids = {} THEN <<0, 0>>
    ELSE LET i == CHOOSE i \in ids : \A k \in ids : i <= k
         IN  VAdd(OldPairForce(pos, peds[i + 1]), OldSumPairForces(peds, pos, ids \ {i}))

\* sfm.rs:154-162 of the earlier model
OldObstacleForce(pos) ==
    LET distance == GetObstacleDistance(pos)
        direction == VNeg(Normalize(GetObstacleDistanceGrad(pos)))
    IN  IF distance >= OldCoreDistance
        THEN VMulDiv(direction, 200 * ExpMilli(distance, 14), 1000000)
        ELSE VMulDiv(direction, 1000, 1)

\* sfm.rs:93-165 of the earlier model: the body of one task
OldAcceleration(peds, grid, unit, indices, id) ==
    LET p == peds[id + 1]
        direction == Normalize(GetPotentialGrad(p.destination, p.position))
        dest == VMulDiv(VSub(VMulDiv(direction, p.desired_speed, 1000), p.velocity), 2, 1)
        pair == IF grid THEN OldSumPairForces(peds, p.position,
                                              OldVisited(peds, unit, indices, id))
                ELSE <<0, 0>>
    IN  VAdd(VAdd(dest, pair), OldObstacleForce(p.position))

\* sfm.rs:175-184 of the earlier model
OldIntegrate(p, acc) ==
    LET vel_prev == p.velocity
        vel == ClampLengthMax(VAdd(vel_prev, VMulDiv(acc, 1, 10)), p.desired_speed)
    IN  [p EXCEPT !.velocity = vel,
                  !.position = VAdd(p.position, VMulDiv(VAdd(vel, vel_prev), 1, 20))]

\* SocialForceModel::spawn_pedestrians of the earlier model, sfm.rs:69-86
OldRebuildGrid ==
    /\ pc = "rebuild"
    /\ simHolds' = "none"
    /\ UNCHANGED <<paused, readerPc, pausedAtCommit>>
    /\ IF use_neighbor_grid
       THEN LET data == OldUpdate(Positions(pedestrians), neighbor_grid_unit)
            IN  /\ neighbor_grid' = data
                /\ updateInput' = Positions(pedestrians)
                /\ pedestrians' = OldSortedFrom(pedestrians, data, neighbor_grid_unit, 0)
                /\ neighbor_grid_indices' =
                       <<0>> \o OldIndicesFrom(data, neighbor_grid_unit, 0, 0)
       ELSE UNCHANGED <<pedestrians, neighbor_grid, neighbor_grid_indices, updateInput>>
    /\ pc' = "calc"
    /\ pending' = 0 .. (Len(pedestrians') - 1)
    /\ accelerations' = [k \in 1 .. Len(pedestrians') |-> <<0, 0>>]
    /\ visited' = [k \in 1 .. Len(pedestrians') |-> {}]
    /\ snapshot' = pedestrians'
    /\ snapshotIndices' = neighbor_grid_indices'
    /\ phaseLog' = Append(phaseLog, "rebuild")
    /\ UNCHANGED <<neighbor_grid_unit, use_neighbor_grid, next_state, tick, spawned>>
    /\ UNCHANGED <<fmmVars, gpuVars, builderVars, utilVars, osmVars, reproVars>>

\* one task of the parallel map of calc_next_state, sfm.rs:91-165
OldCalcTaskInPlace(id) ==
    /\ pc = "calc"
    /\ simHolds = "read"
    /\ UNCHANGED loopVars
    /\ id \in pending
    /\ LET acc == OldAcceleration(pedestrians, use_neighbor_grid, neighbor_grid_unit,
                                  neighbor_grid_indices, id)
       IN  /\ accelerations' = [accelerations EXCEPT ![id + 1] = <<0, 0>>]
           /\ pedestrians' = [pedestrians EXCEPT ![id + 1] = OldIntegrate(@, acc)]
    /\ visited' = [visited EXCEPT ![id + 1] =
                       IF use_neighbor_grid
                       THEN OldVisited(pedestrians, neighbor_grid_unit,
                                       neighbor_grid_indices, id)
                       ELSE {}]
    /\ pending' = pending \ {id}
    /\ phaseLog' = Append(phaseLog, "eval")
    /\ UNCHANGED <<neighbor_grid, neighbor_grid_indices, neighbor_grid_unit,
                   use_neighbor_grid, next_state, pc, tick, spawned, updateInput,
                   snapshot, snapshotIndices>>
    /\ UNCHANGED <<fmmVars, gpuVars, builderVars, utilVars, osmVars, reproVars>>

OldCalcTask(id) ==
    /\ pc = "calc"
    /\ simHolds = "read"
    /\ UNCHANGED loopVars
    /\ id \in pending
    /\ accelerations' = [accelerations EXCEPT ![id + 1] =
                             OldAcceleration(pedestrians, use_neighbor_grid,
                                             neighbor_grid_unit, neighbor_grid_indices, id)]
    /\ visited' = [visited EXCEPT ![id + 1] =
                       IF use_neighbor_grid
                       THEN OldVisited(pedestrians, neighbor_grid_unit,
                                       neighbor_grid_indices, id)
                       ELSE {}]
    /\ pending' = pending \ {id}
    /\ phaseLog' = Append(phaseLog, "eval")
    /\ UNCHANGED <<pedestrians, neighbor_grid, neighbor_grid_indices, neighbor_grid_unit,
                   use_neighbor_grid, next_state, pc, tick, spawned, updateInput,
                   snapshot, snapshotIndices>>
    /\ UNCHANGED <<fmmVars, gpuVars, builderVars, utilVars, osmVars, reproVars>>

\* SocialForceModel::apply_next_state of the earlier model, sfm.rs:171-185
OldApplyNextState ==
    /\ pc = "apply"
    /\ simHolds = "write"
    /\ simHolds' = "none"
    /\ pausedAtCommit' = paused
    /\ UNCHANGED <<paused, readerPc>>
    /\ pedestrians' = [k \in 1 .. Len(pedestrians) |->
                           OldIntegrate(pedestrians[k], next_state[k])]
    /\ pc' = "loop"
    /\ phaseLog' = Append(phaseLog, "commit")
    /\ UNCHANGED <<neighbor_grid, neighbor_grid_indices, neighbor_grid_unit,
                   use_neighbor_grid, accelerations, next_state, pending, tick, spawned,
                   updateInput, snapshot, snapshotIndices, visited>>
    /\ UNCHANGED <<fmmVars, gpuVars, builderVars, utilVars, osmVars, reproVars>>

InitSfmOld == TickInit /\ LoopHeadless /\ FmmIdle /\ GpuIdle /\ OsmIdle /\ ReproIdle /\ BuilderIdle /\ UtilIdle

SfmOldNext ==
    \/ LoopStart
    \/ AcquireWrite
    \/ SpawnPedestrians
    \/ OldRebuildGrid
    \/ AcquireRead
    \/ \E id \in 0 .. (MaxPeds - 1) : OldCalcTask(id)
    \/ CalcCollect
    \/ OldApplyNextState

SpecSfmOld == InitSfmOld /\ [][SfmOldNext]_vars

\* C22: while calc_next_state runs, the pedestrians (position, velocity,
\* destination, desired speed), the neighbor grid and neighbor_grid_indices do
\* not change and only the result buffer is written; the pedestrian array takes
\* the computed accelerations in only through apply_next_state.
C22_CalcOnlyReads ==
    [][/\ pc = "calc" =>
            /\ pedestrians' = pedestrians
            /\ neighbor_grid' = neighbor_grid
            /\ neighbor_grid_indices' = neighbor_grid_indices
       /\ (pc = "calc" /\ pc' = "apply") => next_state' = accelerations
       /\ (pc = "apply" /\ pc' = "loop") =>
            pedestrians' = [k \in 1 .. Len(pedestrians) |->
                                OldIntegrate(snapshot[k],
                                    OldAcceleration(snapshot, use_neighbor_grid,
                                        neighbor_grid_unit, snapshotIndices, k - 1))]
       /\ pc \in {"loop", "calc"} => pedestrians' = pedestrians]_vars

\* a tick of two interacting pedestrians has been evaluated and then committed
C22_Witness ==
    /\ pc = "loop"
    /\ tick > 0
    /\ Len(next_state) = 2
    /\ Len(pedestrians) = 2
    /\ pedestrians # snapshot
    /\ \E k \in 1 .. 2 : visited[k] # {}

(***************************************************************************)
(* Claims about the stored pedestrians and the neighbor query              *)
(***************************************************************************)
\* C23: spawn_pedestrians with the neighbor grid removes from the storage only
\* pedestrians whose destination potential is at most the arrival threshold:
\* every other stored or newly spawned pedestrian is kept, wherever it stands,
\* so the count after the call is the count before plus the spawned ones minus
\* the arrived ones.
C23_OnlyArrivedCompacted ==
    [][(pc = "rebuild" /\ pc' = "calc" /\ use_neighbor_grid) =>
           /\ Uids(pedestrians') = Uids(SelectStaying(pedestrians))
           /\ Len(pedestrians') = Len(SelectStaying(pedestrians))]_vars

\* C28: for the same stored pedestrians and a grid unit of at least the cutoff
\* radius, the acceleration of every pedestrian computed with
\* use_neighbor_grid = false equals the one computed with the neighbor grid.
C28_GridOnlyAccelerates ==
    (pc = "calc" /\ use_neighbor_grid
        /\ neighbor_grid_unit * neighbor_grid_unit >= CutoffSquared) =>
        \A id \in 0 .. (Len(pedestrians) - 1) :
            Acceleration(pedestrians, FALSE, neighbor_grid_unit, neighbor_grid_indices, id)
                = Acceleration(pedestrians, TRUE, neighbor_grid_unit,
                               neighbor_grid_indices, id)

\* C29: with SimulatorOptions::default() (neighbor_grid_unit 1.4) the neighbor
\* loop of a finished task has visited every other stored pedestrian whose
\* squared distance is within the cutoff 16.0.
C29_DefaultUnitMissesNoPair ==
    (use_neighbor_grid /\ neighbor_grid_unit = DefaultNeighborUnit
        /\ pc \in {"calc", "apply"}) =>
        \A id \in (0 .. (Len(snapshot) - 1)) \ pending :
            \A j \in (0 .. (Len(snapshot) - 1)) \ {id} :
                LengthSquared(VSub(snapshot[id + 1].position, snapshot[j + 1].position))
                    <= CutoffSquared
                => /\ j \in visited[id + 1]
                   /\ j \in Block(snapshot[id + 1].position, neighbor_grid_unit,
                                  snapshotIndices)

(***************************************************************************)
(* Termination and acceptance order of apply_fmm                           *)
(***************************************************************************)
\* the solves whose seeds (waypoint cells) lie in the first row and whose
\* obstacle cells lie in the second row
InitFmmLive ==
    /\ InitFmm
    /\ \A c \in seeds : IndexY(c) = 0
    /\ \A c \in FmmCells : cost[c] = ObstacleCost => IndexY(c) = 1

\* the solve is a sequential loop that takes its next step whenever it has
\* one: weak fairness of FmmNext, WF_vars(FmmNext), written out with
\* ENABLED <<FmmNext>>_vars replaced by its value fmmPc # "done": the first loop
\* either visits a seed cell or ends, the second either pops an entry or ends
FmmLoopRuns == []<>(fmmPc = "done") \/ []<><<FmmNext>>_vars

SpecFmmLive == InitFmmLive /\ [][FmmNext]_vars /\ FmmLoopRuns

\* the cells joined to the seed set by a 4-connected path inside the grid
RECURSIVE Reach(_)
Reach(S) ==
    LET n == S \cup UNION {Neighbors4(c) : c \in S}
    IN  IF n = S THEN S ELSE Reach(n)

\* C25: apply_fmm terminates for every seed set, the empty one included: the
\* queue runs empty, and then every cell joined to a seed by a 4-connected path
\* is Accepted and holds a potential below its initial background value.
C25_Terminates ==
    /\ <>(fmmPc = "done")
    /\ [](fmmPc = "done" =>
              /\ queue = << >>
              /\ \A c \in Reach(seeds) : accepted[c] /\ potential[c] < background)

\* a solve with a seed and an obstacle cell has run to its end
C25_Witness ==
    /\ fmmPc = "done"
    /\ seeds # {}
    /\ \E c \in FmmCells : cost[c] = ObstacleCost
    /\ \A c \in FmmCells : acceptCount[c] = 1

\* C26: the potential of a cell that is accepted from the queue is at least
\* the potential of every cell accepted before it, and every tentative
\* potential written by the relaxation that follows is at least that potential.
C26_AcceptedInOrder ==
    [][(fmmPc = "march" /\ acceptCount' # acceptCount) =>
           /\ \A c \in FmmCells : accepted[c] => potential[c] <= lastPop'[2]
           /\ \A n \in FmmCells : potential'[n] # potential[n] => potential'[n] >= lastPop'[2]
           /\ \A k \in 1 .. Len(queue') : queue'[k][1] >= lastPop'[2]]_vars

\* a cell behind an obstacle cell has been accepted after cells of three
\* different smaller potentials
C26_Witness ==
    /\ lastPop[1] = "accept"
    /\ \E c \in FmmCells : cost[c] = ObstacleCost /\ accepted[c]
    /\ Cardinality({potential[c] : c \in {d \in FmmCells : accepted[d]}}) >= 4
    /\ fed # {}

(***************************************************************************)
(* OptimalStepsModel of the earlier tree (simulator/models/osm.rs)         *)
(***************************************************************************)
\* R = 0.1 m (osm.rs:14) is the radius of CircleOffsets; samples: 16 (osm.rs:71)
OsmSamples == 16
\* the pedestrian stays active while its field potential is > 2.0 (osm.rs:80), in 1/100
OsmActiveThreshold == 200
\* calc_potential returns the field potential alone below 1.0 (osm.rs:142), in 1/100
OsmFieldOnlyBelow == 100
\* G_P = 0.4 m and G_P + H_P = 1.4 m (osm.rs:123, 131), in cm
OsmTorso == 40
OsmPedRange == 140
\* MU_P = 1000.0 and MU_O = 10000.0 (osm.rs:127, 134), in 1/1000
OsmMuP == 1000000
OsmMuO == 10000000
\* H_O = 6.0 m and G_P_HALF = 0.2 m (osm.rs:138, 124), in cm
OsmObstacleRange == 600
OsmTorsoHalf == 20

\* radius * (cos phi, sin phi) for phi = 2 pi / 32 * m, m = 0 .. 31, in cm:
\* the sample k of CircleBorder::optimize with the draw r / 2 is entry 2 k + r
CircleOffsets ==
    << <<10, 0>>, <<10, 2>>, <<9, 4>>, <<8, 6>>, <<7, 7>>, <<6, 8>>, <<4, 9>>, <<2, 10>>,
       <<0, 10>>, <<-2, 10>>, <<-4, 9>>, <<-6, 8>>, <<-7, 7>>, <<-8, 6>>, <<-9, 4>>,
       <<-10, 2>>, <<-10, 0>>, <<-10, -2>>, <<-9, -4>>, <<-8, -6>>, <<-7, -7>>,
       <<-6, -8>>, <<-4, -9>>, <<-2, -10>>, <<0, -10>>, <<2, -10>>, <<4, -9>>, <<6, -8>>,
       <<7, -7>>, <<8, -6>>, <<9, -4>>, <<10, -2>> >>

\* the 16 draws of fastrand::f32() of one optimize call (optim.rs:20), each 0 or
\* 1/2: all 0, all 1/2, or alternating
PhaseVectors ==
    { [k \in 1 .. OsmSamples |-> 0],
      [k \in 1 .. OsmSamples |-> 1],
      [k \in 1 .. OsmSamples |-> k % 2] }

\* points of the origin waypoint segment at which a pedestrian is placed
OsmSpawnSites == {<<260, 400>>, <<290, 400>>, <<300, 400>>, <<300, 580>>}

\* x = radius * vec2(phi.cos(), phi.sin()) (optim.rs:20-21)
OsmSampleOffset(k, phase) == CircleOffsets[2 * k + phase[k + 1] + 1]

\* potential_ped_from_distance (osm.rs:146-154), in 1/1000; NU_P * exp(-delta^0.2)
\* falls from 0.174 at 0.4 m to 0.137 at 1.4 m and is taken linear in between
OsmPedPotential(delta) ==
    IF delta > OsmPedRange THEN 0
    ELSE IF delta <= OsmTorso THEN OsmMuP
    ELSE 174 - ((delta - OsmTorso) * 37) \div 100

\* p_obstacles (osm.rs:209-219), in 1/1000: NU_O * exp(-A_O * delta^2)
OsmObstaclePotential(pos) ==
    LET delta == GetObstacleDistance(pos)
    IN  IF delta > OsmObstacleRange THEN 0
        ELSE IF delta < OsmTorsoHalf THEN OsmMuO
        ELSE (200 * ExpMilli(delta * delta, 2310)) \div 1000

\* the positions of neighbor_grid_indices read for the rows y_start ..= y_end
\* (osm.rs:157-170): y_end and x_end are cut at shape.y and shape.x
OsmBlockReads(pos, unit) ==
    LET cols == GridCols(unit)
        rows == GridRows(unit)
        ix == TruncDiv(pos[1], unit) + 1
        iy == TruncDiv(pos[2], unit) + 1
        y_start == Max2(iy - 1, 0)
        y_end == Min2(iy + 1, rows)
        x_start == Max2(ix - 1, 0)
        x_end == Min2(ix + 1, cols)
    IN  [j \in 1 .. (y_end - y_start + 1) |->
            <<(y_start + j - 1) * cols + x_start, (y_start + j - 1) * cols + x_end + 1>>]

\* Vec indexing (osm.rs:169-170): every position read exists
OsmReadsInBounds(pos, unit, indices) ==
    \A j \in 1 .. Len(OsmBlockReads(pos, unit)) :
        /\ OsmBlockReads(pos, unit)[j][1] < Len(indices)
        /\ OsmBlockReads(pos, unit)[j][2] < Len(indices)

\* for i in i_start..i_end, row after row (osm.rs:167-172)
RECURSIVE OsmBlockIds(_, _, _)
OsmBlockIds(reads, indices, j) ==
    IF j > Len(reads) THEN << >>
    ELSE LET i_start == indices[reads[j][1] + 1]
             i_end == indices[reads[j][2] + 1]
         IN  [m \in 1 .. (i_end - i_start) |-> i_start + m - 1]
                 \o OsmBlockIds(reads, indices, j + 1)

\* the pedestrians whose distance enters p_pedestrians, in the order of the
\* loop (osm.rs:156-191): the block of the grid, or everybody; never self_id,
\* and no test of Pedestrian::active in either branch
OsmNeighborIds(peds, grid, unit, indices, pos, self_id) ==
    LET all == IF grid THEN OsmBlockIds(OsmBlockReads(pos, unit), indices, 1)
               ELSE [m \in 1 .. Len(peds) |-> m - 1]
    IN  SelectSeq(all, LAMBDA i : i # self_id)

RECURSIVE OsmSumPotential(_, _, _, _)
OsmSumPotential(peds, pos, ids, j) ==
    IF j > Len(ids) THEN 0
    ELSE OsmPedPotential(Length(VSub(pos, peds[ids[j] + 1].pos)))
             + OsmSumPotential(peds, pos, ids, j + 1)

\* OptimalStepsModel::calc_potential (osm.rs:115-223), in 1/1000
OsmCalcPotential(peds, grid, unit, indices, pos, destination, self_id) ==
    LET p_field == GetPotential(destination, pos)
    IN  IF p_field < OsmFieldOnlyBelow THEN p_field * 10
        ELSE p_field * 10
               + OsmSumPotential(peds, pos,
                                 OsmNeighborIds(peds, grid, unit, indices, pos, self_id), 1)
               + OsmObstaclePotential(pos)

\* the index past the end of neighbor_grid_indices that makes a task panic
OsmTaskPanics(peds, grid, unit, indices, id, phase) ==
    /\ grid
    /\ \E k \in 0 .. (OsmSamples - 1) :
         LET pos == VAdd(peds[id + 1].pos, OsmSampleOffset(k, phase))
         IN  /\ GetPotential(peds[id + 1].destination, pos) >= OsmFieldOnlyBelow
             /\ ~OsmReadsInBounds(pos, unit, indices)

\* CircleBorder::optimize (optim.rs:17-27) applied to calc_potential around the
\* pedestrian (osm.rs:82-83): min_by_key keeps the first of equal minima
OsmNextPosition(peds, grid, unit, indices, id, phase) ==
    LET ped == peds[id + 1]
        y == [k \in 0 .. (OsmSamples - 1) |->
                 OsmCalcPotential(peds, grid, unit, indices,
                                  VAdd(ped.pos, OsmSampleOffset(k, phase)),
                                  ped.destination, id)]
        best == CHOOSE k \in 0 .. (OsmSamples - 1) :
                    \A m \in 0 .. (OsmSamples - 1) : y[m] > y[k] \/ (y[m] = y[k] /\ m >= k)
    IN  VAdd(ped.pos, OsmSampleOffset(best, phase))

\* the ids that pass filter(|ped| ped.active) (osm.rs:78, 97)
OsmActiveIds(peds) == {k \in 0 .. (Len(peds) - 1) : peds[k + 1].active}

\* the place of pedestrian id among the active ones, from 1
OsmRank(peds, id) == Cardinality({k \in OsmActiveIds(peds) : k <= id})

\* Simulator::spawn_pedestrians (simulator/mod.rs:74-87) and
\* OptimalStepsModel::spawn_pedestrians (osm.rs:40-62)
OsmSpawnPedestrians ==
    /\ pc = "spawn"
    /\ simHolds = "write"
    /\ simHolds' = "none"
    /\ UNCHANGED <<paused, readerPc, pausedAtCommit>>
    /\ \E new \in {<< >>} \cup {<<a>> : a \in OsmSpawnSites}
                  \cup {ab \in OsmSpawnSites \X OsmSpawnSites : ab[1] # ab[2]} :
         /\ spawned + Len(new) <= MaxPeds
         /\ LET all == pedestrians \o
                       [k \in 1 .. Len(new) |-> [active |-> TRUE,
                                                 pos |-> new[k],
                                                 destination |-> SpawnDestination,
                                                 uid |-> spawned + k]]
                positions == [k \in 1 .. Len(all) |-> all[k].pos]
                data == OldUpdate(positions, neighbor_grid_unit)
            IN  IF use_neighbor_grid
                THEN /\ neighbor_grid' = data
                     /\ updateInput' = positions
                     /\ pedestrians' = OldSortedFrom(all, data, neighbor_grid_unit, 0)
                     /\ neighbor_grid_indices' =
                            <<0>> \o OldIndicesFrom(data, neighbor_grid_unit, 0, 0)
                ELSE /\ pedestrians' = all
                     /\ UNCHANGED <<neighbor_grid, neighbor_grid_indices, updateInput>>
         /\ spawned' = spawned + Len(new)
    /\ pc' = "calc"
    /\ pending' = OsmActiveIds(pedestrians')
    /\ accelerations' = [k \in 1 .. Len(pedestrians') |->
                             <<pedestrians'[k].pos, pedestrians'[k].active>>]
    /\ phases' = [k \in 1 .. Len(pedestrians') |-> << >>]
    /\ snapshot' = pedestrians'
    /\ snapshotIndices' = neighbor_grid_indices'
    /\ phaseLog' = Append(phaseLog, "spawn")
    /\ UNCHANGED <<neighbor_grid_unit, use_neighbor_grid, next_state, tick, visited>>
    /\ UNCHANGED <<fmmVars, gpuVars, builderVars, utilVars, reproVars>>

\* one task of the parallel map of calc_next_state (osm.rs:79-86); an index
\* out of bounds panics and ends the run
OsmCalcTask(id) ==
    /\ pc = "calc"
    /\ simHolds = "read"
    /\ UNCHANGED loopVars
    /\ id \in pending
    /\ \E phase \in PhaseVectors :
         IF OsmTaskPanics(pedestrians, use_neighbor_grid, neighbor_grid_unit,
                          neighbor_grid_indices, id, phase)
         THEN /\ pc' = "panicked"
              /\ phases' = [phases EXCEPT ![id + 1] = phase]
              /\ UNCHANGED <<accelerations, pending>>
         ELSE /\ accelerations' = [accelerations EXCEPT ![id + 1] =
                     <<OsmNextPosition(pedestrians, use_neighbor_grid, neighbor_grid_unit,
                                       neighbor_grid_indices, id, phase),
                       GetPotential(pedestrians[id + 1].destination, pedestrians[id + 1].pos)
                           > OsmActiveThreshold>>]
              /\ phases' = [phases EXCEPT ![id + 1] = phase]
              /\ pending' = pending \ {id}
              /\ pc' = pc
    /\ phaseLog' = Append(phaseLog, "eval")
    /\ UNCHANGED <<pedestrians, neighbor_grid, neighbor_grid_indices, neighbor_grid_unit,
                   use_neighbor_grid, next_state, tick, spawned, updateInput,
                   snapshot, snapshotIndices, visited>>
    /\ UNCHANGED <<fmmVars, gpuVars, builderVars, utilVars, reproVars>>

\* collect() and *self.next_state.lock().unwrap() = state (osm.rs:87-89)
OsmCalcCollect ==
    /\ pc = "calc"
    /\ simHolds = "read"
    /\ simHolds' = "none"
    /\ UNCHANGED <<paused, readerPc, pausedAtCommit>>
    /\ pending = {}
    /\ next_state' = [r \in 1 .. Cardinality(OsmActiveIds(pedestrians)) |->
                          accelerations[(CHOOSE k \in OsmActiveIds(pedestrians) :
                                             OsmRank(pedestrians, k) = r) + 1]]
    /\ pc' = "apply"
    /\ UNCHANGED <<pedestrians, neighbor_grid, neighbor_grid_indices, neighbor_grid_unit,
                   use_neighbor_grid, accelerations, pending, tick, spawned, updateInput,
                   snapshot, snapshotIndices, phaseLog, visited>>
    /\ UNCHANGED <<fmmVars, gpuVars, builderVars, utilVars, osmVars, reproVars>>

\* OptimalStepsModel::apply_next_state (osm.rs:92-103)
OsmApplyNextState ==
    /\ pc = "apply"
    /\ simHolds = "write"
    /\ simHolds' = "none"
    /\ pausedAtCommit' = paused
    /\ UNCHANGED <<paused, readerPc>>
    /\ pedestrians' = [k \in 1 .. Len(pedestrians) |->
                           IF pedestrians[k].active
                           THEN [pedestrians[k] EXCEPT
                                     !.pos = next_state[OsmRank(pedestrians, k - 1)][1],
                                     !.active = next_state[OsmRank(pedestrians, k - 1)][2]]
                           ELSE pedestrians[k]]
    /\ pc' = "loop"
    /\ phaseLog' = Append(phaseLog, "commit")
    /\ UNCHANGED <<neighbor_grid, neighbor_grid_indices, neighbor_grid_unit,
                   use_neighbor_grid, accelerations, next_state, pending, tick, spawned,
                   updateInput, snapshot, snapshotIndices, visited>>
    /\ UNCHANGED <<fmmVars, gpuVars, builderVars, utilVars, osmVars, reproVars>>

InitOsm == TickInit /\ LoopHeadless /\ FmmIdle /\ GpuIdle /\ OsmIdle /\ ReproIdle /\ BuilderIdle /\ UtilIdle

OsmNext ==
    \/ LoopStart
    \/ AcquireWrite
    \/ OsmSpawnPedestrians
    \/ AcquireRead
    \/ \E id \in 0 .. (MaxPeds - 1) : OsmCalcTask(id)
    \/ OsmCalcCollect
    \/ OsmApplyNextState

SpecOsm == InitOsm /\ [][OsmNext]_vars

\* beyond every interaction range of the field
FarAway == <<-20000, -20000>>

\* the pedestrians with every deactivated one taken out of reach
WithoutInactive(peds) ==
    [k \in 1 .. Len(peds) |->
        IF peds[k].active THEN peds[k] ELSE [peds[k] EXCEPT !.pos = FarAway]]

\* C24: once a pedestrian of the OptimalStepsModel is deactivated its position
\* never changes and it is never active again, and the next position computed
\* for every other pedestrian is the one computed without it, with the
\* neighbor grid and without.
C24_DeactivatedIsInert ==
    [][/\ \A k \in 1 .. Len(pedestrians) : \A m \in 1 .. Len(pedestrians') :
            (~pedestrians[k].active /\ pedestrians'[m].uid = pedestrians[k].uid) =>
                /\ pedestrians'[m].pos = pedestrians[k].pos
                /\ ~pedestrians'[m].active
       /\ (pc = "calc" /\ pc' = "apply") =>
            \A id \in OsmActiveIds(pedestrians) :
                accelerations[id + 1][1] =
                    OsmNextPosition(WithoutInactive(pedestrians), use_neighbor_grid,
                                    neighbor_grid_unit, neighbor_grid_indices, id,
                                    phases[id + 1])]_vars

\* C27: the 3x3 block query of calc_potential reads neighbor_grid_indices only
\* at positions 0 ..= rows * cols, for every sample point of every active
\* pedestrian, and no task ends in an index out of bounds.
C27_BlockReadsInBounds ==
    /\ pc # "panicked"
    /\ (pc = "calc" /\ use_neighbor_grid) =>
         \A id \in pending : \A phase \in PhaseVectors : \A k \in 0 .. (OsmSamples - 1) :
            LET pos == VAdd(pedestrians[id + 1].pos, OsmSampleOffset(k, phase))
            IN  GetPotential(pedestrians[id + 1].destination, pos) >= OsmFieldOnlyBelow =>
                  \A j \in 1 .. Len(OsmBlockReads(pos, neighbor_grid_unit)) :
                      OsmBlockReads(pos, neighbor_grid_unit)[j][2]
                          <= GridRows(neighbor_grid_unit) * GridCols(neighbor_grid_unit)

(***************************************************************************)
(* Two runs of Simulator::spawn_pedestrians over the same scenario         *)
(***************************************************************************)
Runs == {1, 2}
\* number of values of the seeded generator the modelled runs can draw
StreamLen == 24
\* the sequence of Rng::with_seed(0) is one fixed sequence, the same for every
\* run; its values are not known here, so three candidates are tried
SeededStreams ==
    { [k \in 1 .. StreamLen |-> (k * 37 + 58) % 100],
      [k \in 1 .. StreamLen |-> (k * 61 + 30) % 100],
      [k \in 1 .. StreamLen |-> (k * 13 + 84) % 100] }
\* exp(-lambda) for lambda = frequency / 10.0 with frequency 1.0 (util.rs:64), in 1/100
ExpLambda == 90
\* values of the thread-local generator behind fastrand::f64() (util.rs:67),
\* in 1/100: it is seeded from the environment and shared with every other
\* caller in the thread, so each draw may be any value
GlobalDraws == {50, 94}
\* values of fastrand_contrib::f32_normal_approx(1.34, 0.26) (sfm.rs:54), in cm/s,
\* drawn from the same thread-local generator
SpeedDraws == {120, 148}
\* the origin waypoint line [p_1, p_2], in cm
OriginLine == <<<<400, 300>>, <<400, 500>>>>

\* p_1.lerp(p_2, t) (lib.rs:63), t in 1/100
LerpOrigin(t) ==
    <<OriginLine[1][1] + ((OriginLine[2][1] - OriginLine[1][1]) * t) \div 100,
      OriginLine[1][2] + ((OriginLine[2][2] - OriginLine[1][2]) * t) \div 100>>

\* util::poisson (util.rs:61-72) from its first draw x on: the values y it can
\* return, one for every course of the draws x *= fastrand::f64()
RECURSIVE PoissonFrom(_)
PoissonFrom(x) ==
    IF x >= ExpLambda
    THEN UNION {{y + 1 : y \in PoissonFrom((x * g) \div 100)} : g \in GlobalDraws}
    ELSE {0}

\* Simulator::initialize has run in both runs (lib.rs:48)
InitRepro ==
    /\ seeded \in SeededStreams
    /\ spawn_rng = [s \in Runs |-> 0]
    /\ spawn_log = [s \in Runs |-> << >>]
    /\ FmmIdle /\ TickOff /\ LoopHeadless /\ GpuIdle /\ OsmIdle /\ BuilderIdle /\ UtilIdle

\* Simulator::spawn_pedestrians (lib.rs:54-74) with the push loop of
\* SocialForceModel::spawn_pedestrians (sfm.rs:49-56), for the one source of
\* the scenario, in run s
SimulatorSpawn(s) ==
    /\ Len(spawn_log[s]) < MaxTicks
    /\ \E count \in PoissonFrom(seeded[spawn_rng[s] + 1]) :
         /\ spawn_rng[s] + 1 + count <= StreamLen
         /\ \E speeds \in [1 .. count -> SpeedDraws] :
              spawn_log' = [spawn_log EXCEPT ![s] = Append(@,
                  [k \in 1 .. count |->
                      [position |-> LerpOrigin(seeded[spawn_rng[s] + 1 + k]),
                       desired_speed |-> speeds[k]]])]
         /\ spawn_rng' = [spawn_rng EXCEPT ![s] = @ + 1 + count]
    /\ UNCHANGED seeded
    /\ UNCHANGED <<fmmVars, tickVars, loopVars, gpuVars, builderVars, utilVars, osmVars>>

ReproNext == \E s \in Runs : SimulatorSpawn(s)

SpecRepro == InitRepro /\ [][ReproNext]_vars

\* C30: two simulators initialized with the same scenario and options spawn, in
\* every tick both have run, the same number of pedestrians at the same
\* positions with the same desired speeds, whatever the thread-local generator
\* yields.
C30_SpawnReproducible ==
    \A t \in 1 .. Min2(Len(spawn_log[1]), Len(spawn_log[2])) :
        spawn_log[1][t] = spawn_log[2][t]

====
